---- MODULE Spec2Model ----
(***************************************************************************)
(* TalkCo backend: the realtime session orchestrator.                      *)
(*                                                                         *)
(* The model follows the asyncio program step by step.  Every action is    *)
(* the code that runs between two suspension points (an await that really  *)
(* yields to the event loop: a database operation, a websocket send or     *)
(* receive, a queue get).  All coroutines share one aiosqlite connection,  *)
(* so a row written by execute() is visible to every later statement even  *)
(* before commit().                                                        *)
(***************************************************************************)
EXTENDS Integers, Sequences, FiniteSets, TLC

\* ------------------------------------------------------------------ bounds
MaxTurns == 2        \* chat requests accepted per run of SpecTurn
MaxLifeTurns == 1    \* chat requests accepted per run of Spec
MaxResp == 4         \* responses the engine is asked for per run
MaxQueue == 3        \* events queued in the Event Channel at once
MaxMarks == 2        \* marks in one reply of the review engine
MaxCalls == 2        \* review.py / profile.py calls per run of SpecReview

\* ------------------------------------------------------- small input sets
Sessions == {"s1"}
TurnSlots == {1, 2}            \* concurrent chat requests
DelSlots == {1, 2}             \* DELETE /sessions/{id} requests
EndSlots == {1, 2}             \* POST /sessions/{id}/end requests
OneDelSlot == {1}              \* a client that sends one DELETE request
OneEndSlot == {1}              \* a client that sends one end request
Modes == {"conversation", "review"}
\* the creating user's profile: "new" has no user_profiles row yet, "null"
\* has a row whose level is falsy (NULL in a database that predates the NOT
\* NULL constraint, or ''), "B1" has a row with an assessed level
Levels == {"new", "null", "B1"}
NoSession == "none"
EvalSlots == {1, 2}            \* POST /users/{id}/evaluate requests
EngineLevels == {"A2", "B2"}   \* levels the engine may answer
\* the two coroutines of one evaluate request that start with
\* get_or_create_profile
ProfileCallers == {"evaluate_level", "generate_progress_notes"}
FirstEvents == {"session.created", "session.updated"}

\* --------------------------------------------------------- program state
VARIABLES
    \* sessions.py module state
    _sessions,        \* registry: set of session ids with a RealtimeSession
    _session_modes,   \* session id -> mode, or "absent"
    createPc,         \* create_session call per session id
    connPc,           \* _connect_with_retry task per session id
    \* database rows
    dbStatus,         \* sessions.status per id ("none": no row)
    segments,         \* per session: turn_index of each row, in id order
    \* RealtimeSession fields
    _connected,       \* self._connected
    _conn,            \* self._conn: "none", "open", "closed"
    _listener_task,   \* "none", "running", "cancelled", "finished"
    _event_queue,     \* self._event_queue: sequence of events
    _turn_index,      \* self._turn_index
    \* the remote engine: responses requested and not yet fully delivered
    engine,
    nResp,            \* responses requested so far
    \* chat requests (main.chat / chat_text and the stream generators)
    tPc, tSess, tKind, tNum, tTranscript, tResponse,
    tPrev, tStale, tEndedBy, tTools, tFnOutputs, tFollowUps,
    nTurns,           \* chat requests accepted so far
    doneTurns,        \* turn numbers whose stream has emitted done
    \* DELETE /sessions/{id} requests (sessions.delete_session)
    dPc, dSess, dMode,
    reviewTask,       \* _run_review task launched by each delete request
    \* POST /sessions/{id}/end requests (main.end_session)
    fPc, fSess, fCnt, fWrote,
    finTask,          \* _finalize_session task launched by each request
    finSub,           \* state of each sub-task of the finalization group
    \* RealtimeSession.connect: the type of the event recv() returned
    first_event,
    \* the user_profiles row of one user
    profLevel,        \* user_profiles.level
    profData,         \* user_profiles.profile_data
    \* POST /users/{id}/evaluate requests (main.evaluate_user_level)
    reqPc,            \* the handler
    evPc, evRes,      \* its evaluate_level coroutine and the engine's answer
    pnPc, pnSnap,     \* its generate_progress_notes call and the profile read
    qrPc, qrSnap,     \* its generate_quick_review call and the re-read data
    \* the stream generators: the output items yielded so far, and the last
    \* tool call handled (name, arguments, function output)
    tOut, tToolCall,
    \* database rows written by review.py
    ai_marks,         \* per session: segment id of each ai_marks row
    corrections,      \* per session: segment id of each corrections row
    session_summaries,  \* per session: the stored result, 0 without a row
    chat_summaries,   \* per session: the stored summary, 0 without a row
    summary_schema,   \* how the summary tables of this database were made
    \* calls of review.py / profile.py functions
    nCalls,           \* calls made so far
    lastCall,         \* the last call: inputs, engine use, outcome
    \* POST /sessions/{id}/corrections (main.create_correction)
    cPc, cSess, cSeg,
    \* get_or_create_profile as called by each coroutine of an evaluate
    \* request
    gpPc

lifeVars == <<_sessions, _session_modes, createPc, connPc, dbStatus>>
sessVars == <<_connected, _conn, _listener_task, _event_queue, _turn_index>>
engVars == <<engine, nResp>>
turnVars == <<tPc, tSess, tKind, tNum, tTranscript, tResponse, tPrev,
              tStale, tEndedBy, tTools, tFnOutputs, tFollowUps, nTurns,
              doneTurns, tOut, tToolCall>>
delVars == <<dPc, dSess, dMode, reviewTask>>
endVars == <<fPc, fSess, fCnt, fWrote, finTask, finSub>>
profVars == <<profLevel, profData, reqPc, evPc, evRes, pnPc, pnSnap, qrPc,
              qrSnap>>
revVars == <<ai_marks, corrections, session_summaries, chat_summaries,
             summary_schema, nCalls, lastCall>>
corrVars == <<cPc, cSess, cSeg, gpPc>>
vars == <<lifeVars, sessVars, engVars, turnVars, delVars, endVars, segments,
          first_event, profVars, revVars, corrVars>>

\* ------------------------------------------------------------- constants
\* constants.SessionStatus
ACTIVE == "active"
REVIEWING == "reviewing"
COMPLETING == "completing"
COMPLETED == "completed"
ENDED == "ended"

\* position of a status along active -> (reviewing | ended) -> completing
\* -> completed
Rank(st) ==
    CASE st = "none" -> 0
      [] st = ACTIVE -> 1
      [] st = REVIEWING -> 2
      [] st = ENDED -> 2
      [] st = COMPLETING -> 3
      [] st = COMPLETED -> 4

\* ----------------------------------------------------------------- Init
\* no tool call handled yet
NoToolCall ==
    [name |-> "", arguments |-> "", output |-> [kind |-> "none", about |-> ""]]

SubTasks == {"session_review", "profile_update", "chat_summary"}

InitTurns ==
    /\ tPc = [t \in TurnSlots |-> "idle"]
    /\ tSess = [t \in TurnSlots |-> NoSession]
    /\ tKind = [t \in TurnSlots |-> "audio"]
    /\ tNum = [t \in TurnSlots |-> 0]
    /\ tTranscript = [t \in TurnSlots |-> FALSE]
    /\ tResponse = [t \in TurnSlots |-> FALSE]
    /\ tPrev = [t \in TurnSlots |-> {}]
    /\ tStale = [t \in TurnSlots |-> FALSE]
    /\ tEndedBy = [t \in TurnSlots |-> 0]
    /\ tTools = [t \in TurnSlots |-> 0]
    /\ tFnOutputs = [t \in TurnSlots |-> 0]
    /\ tFollowUps = [t \in TurnSlots |-> {}]
    /\ nTurns = 0
    /\ doneTurns = {}
    /\ tOut = [t \in TurnSlots |-> <<>>]
    /\ tToolCall = [t \in TurnSlots |-> NoToolCall]

InitEnds ==
    /\ fPc = [f \in EndSlots |-> "idle"]
    /\ fSess = [f \in EndSlots |-> NoSession]
    /\ fCnt = [f \in EndSlots |-> -1]
    /\ fWrote = [f \in EndSlots |-> {}]
    /\ finTask = [f \in EndSlots |-> "none"]
    /\ finSub = [f \in EndSlots |-> [k \in SubTasks |-> "notstarted"]]

InitRequests ==
    /\ InitTurns
    /\ InitEnds
    /\ dPc = [d \in DelSlots |-> "idle"]
    /\ dSess = [d \in DelSlots |-> NoSession]
    /\ dMode = [d \in DelSlots |-> "conversation"]
    /\ reviewTask = [d \in DelSlots |-> "none"]

\* no review.py / profile.py call made yet
NoCall ==
    [fn |-> "none", reply |-> <<>>, segment_id |-> 0, result |-> 0,
     rows |-> 0, engine |-> FALSE, outcome |-> "none"]

\* no mark, correction or summary row yet (0: no summary row)
InitReviewRows ==
    /\ ai_marks = [s \in Sessions |-> <<>>]
    /\ corrections = [s \in Sessions |-> <<>>]
    /\ session_summaries = [s \in Sessions |-> 0]
    /\ chat_summaries = [s \in Sessions |-> 0]
    /\ nCalls = 0
    /\ lastCall = NoCall

\* no corrections request and no evaluate request was made yet
InitCorrections ==
    /\ cPc = "idle"
    /\ cSess = NoSession
    /\ cSeg = 0
    /\ gpPc = [c \in ProfileCallers |-> "idle"]

\* a database that init_db() has just created from SCHEMA
InitTables ==
    /\ InitReviewRows
    /\ InitCorrections
    /\ summary_schema = "created"

\* the stored profile of the user: a row with an assessed level and the
\* default profile_data (progress_notes and quick_review not generated yet)
InitData == [progress_notes |-> 0, quick_review |-> 0]
InitRow == [level |-> "B1", profile_data |-> InitData]

InitEvaluations ==
    /\ reqPc = [e \in EvalSlots |-> "idle"]
    /\ evPc = [e \in EvalSlots |-> "idle"]
    /\ evRes = [e \in EvalSlots |-> "none"]
    /\ pnPc = [e \in EvalSlots |-> "idle"]
    /\ pnSnap = [e \in EvalSlots |-> InitRow]
    /\ qrPc = [e \in EvalSlots |-> "idle"]
    /\ qrSnap = [e \in EvalSlots |-> InitData]

InitProfile ==
    /\ profLevel = InitRow.level
    /\ profData = InitRow.profile_data
    /\ InitEvaluations

\* the process right after start-up: no session was created yet
Init ==
    /\ _sessions = {}
    /\ _session_modes = [s \in Sessions |-> "absent"]
    /\ createPc = [s \in Sessions |-> "idle"]
    /\ connPc = [s \in Sessions |-> "none"]
    /\ dbStatus = [s \in Sessions |-> "none"]
    /\ segments = [s \in Sessions |-> <<>>]
    /\ _connected = [s \in Sessions |-> FALSE]
    /\ _conn = [s \in Sessions |-> "none"]
    /\ _listener_task = [s \in Sessions |-> "none"]
    /\ _event_queue = [s \in Sessions |-> <<>>]
    /\ _turn_index = [s \in Sessions |-> 0]
    /\ engine = [s \in Sessions |-> <<>>]
    /\ nResp = 0
    /\ first_event = [s \in Sessions |-> "none"]
    /\ InitRequests
    /\ InitProfile
    /\ InitTables

\* ------------------------------------------------ sessions.create_session
\* _build_learner_summary: with an assessed level the list [f"Level: ..."]
\* is appended to parts and ". ".join(parts) raises TypeError; with no
\* level the parts are strings only.
_build_learner_summary_raises(level) == level \notin {"new", "null"}

\* profile.get_or_create_profile: without a row it INSERTs level NULL into
\* user_profiles, whose level column is NOT NULL: IntegrityError
get_or_create_profile_raises(level) == level = "new"

\* create_session up to its first database write: profile fetch, summary,
\* RealtimeSession construction and the three registry assignments.
create_session(s, mode, level) ==
    /\ createPc[s] = "idle"
    /\ IF get_or_create_profile_raises(level)
          \/ _build_learner_summary_raises(level)
       THEN /\ createPc' = [createPc EXCEPT ![s] = "failed"]
            /\ UNCHANGED <<_sessions, _session_modes>>
       ELSE /\ createPc' = [createPc EXCEPT ![s] = "registered"]
            /\ _sessions' = _sessions \cup {s}
            /\ _session_modes' = [_session_modes EXCEPT ![s] = mode]
    /\ UNCHANGED profVars
    /\ UNCHANGED revVars
    /\ UNCHANGED corrVars
    /\ UNCHANGED first_event
    /\ UNCHANGED <<connPc, dbStatus, segments, sessVars, engVars, turnVars,
                   delVars, endVars>>

\* INSERT INTO sessions ... 'active', commit, create_task(_connect_with_retry)
\* or execute()/commit() raises and the exception leaves create_session
create_session_persist(s) ==
    /\ createPc[s] = "registered"
    /\ \/ /\ createPc' = [createPc EXCEPT ![s] = "done"]
          /\ dbStatus' = [dbStatus EXCEPT ![s] = ACTIVE]
          /\ connPc' = [connPc EXCEPT ![s] = "pending"]
       \/ /\ createPc' = [createPc EXCEPT ![s] = "failed"]
          /\ UNCHANGED <<dbStatus, connPc>>
    /\ UNCHANGED profVars
    /\ UNCHANGED revVars
    /\ UNCHANGED corrVars
    /\ UNCHANGED first_event
    /\ UNCHANGED <<_sessions, _session_modes, segments, sessVars, engVars,
                   turnVars, delVars, endVars>>

\* --------------------------- sessions._connect_with_retry / session.connect
\* the engine starts a response: it will deliver the events of one script
Scripts(kind, followUp) ==
    IF followUp THEN {<<"text", "done">>, <<"error">>}
    ELSE IF kind = "audio"
         THEN {<<"transcript", "text", "done">>, <<"text", "done">>,
               <<"tool", "done">>, <<"error">>}
         ELSE {<<"text", "done">>, <<"tool", "done">>, <<"error">>}

\* connect(): the websocket is opened and the configuration is sent
connect_open(s) ==
    /\ connPc[s] = "pending"
    /\ connPc' = [connPc EXCEPT ![s] = "opened"]
    /\ _conn' = [_conn EXCEPT ![s] = "open"]
    /\ UNCHANGED profVars
    /\ UNCHANGED revVars
    /\ UNCHANGED corrVars
    /\ UNCHANGED first_event
    /\ UNCHANGED <<_sessions, _session_modes, createPc, dbStatus, segments,
                   _connected, _listener_task, _event_queue, _turn_index,
                   engVars, turnVars, delVars, endVars>>

\* connect() from the receipt of the first event to its return, as one step:
\* the session is connected, the listener is started and the greeting
\* response is requested
connect_configured(s) ==
    /\ connPc[s] = "opened"
    /\ _conn[s] = "open"
    /\ nResp < MaxResp
    /\ connPc' = [connPc EXCEPT ![s] = "done"]
    /\ _connected' = [_connected EXCEPT ![s] = TRUE]
    /\ _listener_task' = [_listener_task EXCEPT ![s] = "running"]
    /\ \E sc \in Scripts("text", TRUE) :
          engine' = [engine EXCEPT ![s] =
                        Append(@, [turn |-> 0, rid |-> nResp + 1, rest |-> sc])]
    /\ nResp' = nResp + 1
    /\ UNCHANGED profVars
    /\ UNCHANGED revVars
    /\ UNCHANGED corrVars
    /\ UNCHANGED first_event
    /\ UNCHANGED <<_sessions, _session_modes, createPc, dbStatus, segments,
                   _conn, _event_queue, _turn_index, turnVars, delVars,
                   endVars>>

\* the same part of connect() step by step.
\* first_event = await self._conn.recv() returned an event, of whatever
\* type (it is only logged): the session is connected and the listener is
\* started
connect_recv(s) ==
    /\ connPc[s] = "opened"
    /\ _conn[s] = "open"
    /\ \E ev \in FirstEvents : first_event' = [first_event EXCEPT ![s] = ev]
    /\ connPc' = [connPc EXCEPT ![s] = "greeting"]
    /\ _connected' = [_connected EXCEPT ![s] = TRUE]
    /\ _listener_task' = [_listener_task EXCEPT ![s] = "running"]
    /\ UNCHANGED profVars
    /\ UNCHANGED revVars
    /\ UNCHANGED corrVars
    /\ UNCHANGED <<_sessions, _session_modes, createPc, dbStatus, segments,
                   _conn, _event_queue, _turn_index, engVars, turnVars,
                   delVars, endVars>>

\* connect(): await self._conn.response.create() requests the greeting
\* response and connect() returns (its local first_event is gone)
connect_greeting(s) ==
    /\ connPc[s] = "greeting"
    /\ _conn[s] = "open"
    /\ nResp < MaxResp
    /\ connPc' = [connPc EXCEPT ![s] = "done"]
    /\ first_event' = [first_event EXCEPT ![s] = "none"]
    /\ \E sc \in Scripts("text", TRUE) :
          engine' = [engine EXCEPT ![s] =
                        Append(@, [turn |-> 0, rid |-> nResp + 1, rest |-> sc])]
    /\ nResp' = nResp + 1
    /\ UNCHANGED profVars
    /\ UNCHANGED revVars
    /\ UNCHANGED corrVars
    /\ UNCHANGED <<_sessions, _session_modes, createPc, dbStatus, segments,
                   sessVars, turnVars, delVars, endVars>>

\* _connect_with_retry: connect() raised (the network failed, or the
\* connection was closed under it): the session is dropped from the registry
connect_failed(s) ==
    /\ connPc[s] \in {"pending", "opened", "greeting"}
    /\ connPc' = [connPc EXCEPT ![s] = "failed"]
    /\ _sessions' = _sessions \ {s}
    /\ first_event' = [first_event EXCEPT ![s] = "none"]
    /\ UNCHANGED profVars
    /\ UNCHANGED revVars
    /\ UNCHANGED corrVars
    /\ UNCHANGED <<_session_modes, createPc, dbStatus, segments, sessVars,
                   engVars, turnVars, delVars, endVars>>

\* ------------------------------------------------ RealtimeSession._listen_loop
Sentinel == [type |-> "sentinel", turn |-> -1, rid |-> -1]

\* what the connection delivers next: the next event of the oldest response
\* that is still being generated
NextEvent(s) ==
    LET r == Head(engine[s])
    IN  [type |-> Head(r.rest), turn |-> r.turn, rid |-> r.rid]

EngineAfterEvent(s) ==
    LET r == Head(engine[s])
    IN  IF Len(r.rest) = 1 THEN Tail(engine[s])
        ELSE <<[r EXCEPT !.rest = Tail(@)]>> \o Tail(engine[s])

\* async for event in self._conn: await self._event_queue.put(event)
_listen_loop(s) ==
    /\ _listener_task[s] = "running"
    /\ _conn[s] = "open"
    /\ engine[s] # <<>>
    /\ Len(_event_queue[s]) < MaxQueue
    /\ _event_queue' = [_event_queue EXCEPT ![s] = Append(@, NextEvent(s))]
    /\ engine' = [engine EXCEPT ![s] = EngineAfterEvent(s)]
    /\ UNCHANGED profVars
    /\ UNCHANGED revVars
    /\ UNCHANGED corrVars
    /\ UNCHANGED first_event
    /\ UNCHANGED <<lifeVars, segments, _connected, _conn, _listener_task,
                   _turn_index, nResp, turnVars, delVars, endVars>>

\* except Exception: the read raised; the sentinel is queued and the task ends
_listen_loop_error(s) ==
    /\ _listener_task[s] = "running"
    /\ _conn[s] = "open"
    /\ Len(_event_queue[s]) < MaxQueue
    /\ _event_queue' = [_event_queue EXCEPT ![s] = Append(@, Sentinel)]
    /\ _listener_task' = [_listener_task EXCEPT ![s] = "finished"]
    /\ _conn' = [_conn EXCEPT ![s] = "closed"]
    /\ UNCHANGED profVars
    /\ UNCHANGED revVars
    /\ UNCHANGED corrVars
    /\ UNCHANGED first_event
    /\ UNCHANGED <<lifeVars, segments, _connected, _turn_index, engVars,
                   turnVars, delVars, endVars>>

\* the connection was closed normally: the async for ends without an
\* exception, the except clause is not entered and the task returns
_listen_loop_closed(s) ==
    /\ _listener_task[s] = "running"
    /\ _conn[s] = "open"
    /\ _listener_task' = [_listener_task EXCEPT ![s] = "finished"]
    /\ _conn' = [_conn EXCEPT ![s] = "closed"]
    /\ UNCHANGED profVars
    /\ UNCHANGED revVars
    /\ UNCHANGED corrVars
    /\ UNCHANGED first_event
    /\ UNCHANGED <<lifeVars, segments, _connected, _event_queue, _turn_index,
                   engVars, turnVars, delVars, endVars>>

\* --------------------------------------- main.chat / main.chat_text handlers
TurnFree(t) == tPc[t] \in {"idle", "done", "rejected", "aborted"}

\* the handler: 404 without a registry entry, 503 while not connected,
\* otherwise the stream generator is handed to StreamingResponse.
\* kind "greeting" is main.start_session, see below.
chat(t, s, kind) ==
    /\ TurnFree(t)
    /\ nTurns < MaxTurns
    /\ tSess' = [tSess EXCEPT ![t] = s]
    /\ tKind' = [tKind EXCEPT ![t] = kind]
    /\ tTranscript' = [tTranscript EXCEPT ![t] = FALSE]
    /\ tResponse' = [tResponse EXCEPT ![t] = FALSE]
    /\ tPrev' = [tPrev EXCEPT ![t] = {}]
    /\ tStale' = [tStale EXCEPT ![t] = FALSE]
    /\ tEndedBy' = [tEndedBy EXCEPT ![t] = 0]
    /\ tTools' = [tTools EXCEPT ![t] = 0]
    /\ tFnOutputs' = [tFnOutputs EXCEPT ![t] = 0]
    /\ tFollowUps' = [tFollowUps EXCEPT ![t] = {}]
    /\ tOut' = [tOut EXCEPT ![t] = <<>>]
    /\ tToolCall' = [tToolCall EXCEPT ![t] = NoToolCall]
    /\ IF s \in _sessions /\ _connected[s]
       THEN /\ tPc' = [tPc EXCEPT ![t] = "stream"]
            /\ tNum' = [tNum EXCEPT ![t] =
                            IF kind = "greeting" THEN 0 ELSE nTurns + 1]
            /\ nTurns' = nTurns + 1
       ELSE /\ tPc' = [tPc EXCEPT ![t] = "rejected"]
            /\ tNum' = [tNum EXCEPT ![t] = 0]
            /\ UNCHANGED nTurns
    /\ UNCHANGED profVars
    /\ UNCHANGED revVars
    /\ UNCHANGED corrVars
    /\ UNCHANGED first_event
    /\ UNCHANGED <<lifeVars, segments, sessVars, engVars, doneTurns, delVars,
                   endVars>>

\* main.start_session: 404 without a registry entry; a session that is not
\* connected is waited for (wait_until_connected) and the request ends with
\* 504 when the wait times out, which is the outcome taken here (a wait
\* that succeeds is a request that arrives after connect()); otherwise the
\* generator stream_greeting() is handed to StreamingResponse
start_session(t, s) == chat(t, s, "greeting")

\* the drain loop placed before the connected check
QueueAfterBegin_drain_first(connected, queue) == <<>>

\* if not self._connected: raise RuntimeError comes first; the drain loop
\* empties the queue of a connected session
QueueAfterBegin(connected, queue) == IF connected THEN <<>> ELSE queue

\* ------------- send_audio_and_stream / send_text_and_stream, first part:
\* the connected check and the drain loop (no suspension point in between).
\* stream_greeting has the check and no drain, and submits nothing.
turn_begin(t) ==
    /\ tPc[t] = "stream"
    /\ LET s == tSess[t]
       IN  IF tKind[t] = "greeting"
           THEN /\ tPc' = [tPc EXCEPT ![t] =
                              IF _connected[s] THEN "loop" ELSE "aborted"]
                /\ UNCHANGED <<_event_queue, tPrev>>
           ELSE /\ tPc' = [tPc EXCEPT ![t] =
                              IF _connected[s] THEN "submit" ELSE "aborted"]
                /\ _event_queue' = [_event_queue EXCEPT ![s] =
                                       QueueAfterBegin(_connected[s], @)]
                /\ tPrev' = [tPrev EXCEPT ![t] =
                                IF _connected[s] THEN doneTurns ELSE @]
    /\ UNCHANGED profVars
    /\ UNCHANGED revVars
    /\ UNCHANGED corrVars
    /\ UNCHANGED first_event
    /\ UNCHANGED <<lifeVars, segments, _connected, _conn, _listener_task,
                   _turn_index, engVars, tSess, tKind, tNum, tTranscript,
                   tResponse, tStale, tEndedBy, tTools, tFnOutputs,
                   tFollowUps, nTurns, doneTurns, tOut, tToolCall, delVars,
                   endVars>>

\* the input is submitted and a response is requested; a send on a closed
\* connection raises out of the generator.  A text turn yields its
\* transcript here: the transcript is the input text.
turn_submit(t) ==
    /\ tPc[t] = "submit"
    /\ LET s == tSess[t]
       IN  IF _conn[s] # "open"
           THEN /\ tPc' = [tPc EXCEPT ![t] = "aborted"]
                /\ UNCHANGED <<engine, nResp, tTranscript, tOut>>
           ELSE /\ nResp < MaxResp
                /\ tPc' = [tPc EXCEPT ![t] = "loop"]
                /\ \E sc \in Scripts(tKind[t], FALSE) :
                      /\ ("tool" \in {sc[i] : i \in DOMAIN sc})
                            => nResp + 1 < MaxResp
                      /\ engine' = [engine EXCEPT ![s] =
                            Append(@, [turn |-> tNum[t], rid |-> nResp + 1,
                                       rest |-> sc])]
                /\ nResp' = nResp + 1
                /\ tTranscript' = [tTranscript EXCEPT ![t] = (tKind[t] = "text")]
                /\ tOut' = [tOut EXCEPT ![t] =
                      IF tKind[t] = "text" THEN Append(@, "transcript") ELSE @]
    /\ UNCHANGED profVars
    /\ UNCHANGED revVars
    /\ UNCHANGED corrVars
    /\ UNCHANGED first_event
    /\ UNCHANGED <<lifeVars, segments, sessVars, tSess, tKind, tNum,
                   tResponse, tPrev, tStale, tEndedBy, tTools, tFnOutputs,
                   tFollowUps, nTurns, doneTurns, tToolCall, delVars, endVars>>

\* the event types that end the loop
Terminal(type) == type \in {"done", "error", "sentinel"}

\* ------------------------------------------- tools.execute_tool and its use
\* the tool names and argument strings a function_call item may carry
ToolNames == {"search_news", "lookup"}
ArgStrings == {"", "{\"query\": \"tea\"}", "{\"query\": ", "[]"}
ToolCalls == ToolNames \X ArgStrings
\* the calls of an engine that follows the declared tool schema
SchemaToolCalls == {<<"search_news", "{\"query\": \"tea\"}">>}

\* args_str = item.arguments or "{}", then json.loads(args_str) with
\* except json.JSONDecodeError: args = {}.  The value is a dict, or the
\* JSON value of another type that the string holds.
ParsedArgs(arguments) ==
    CASE arguments = "" -> [type |-> "dict", query |-> ""]
      [] arguments = "{\"query\": \"tea\"}" -> [type |-> "dict", query |-> "tea"]
      [] arguments = "[]" -> [type |-> "list", query |-> ""]
      [] arguments = "{\"query\": " -> [type |-> "dict", query |-> ""]

\* execute_tool(name, args): search_news reads args.get("query", ""), which
\* raises AttributeError when args is not a dict, and returns the articles
\* about the query; any other name gives the payload
\* {"error": "Unknown tool: <name>"}
execute_tool(name, args) ==
    IF name = "search_news"
    THEN IF args.type # "dict"
         THEN [kind |-> "raises", about |-> "AttributeError"]
         ELSE [kind |-> "articles", about |-> args.query]
    ELSE [kind |-> "error", about |-> name]

\* one iteration of the event loop on a queued event; call is the name and
\* the arguments of the function_call item when the event carries one
turn_event(t, call) ==
    /\ tPc[t] = "loop"
    /\ LET s == tSess[t]
       IN  /\ _event_queue[s] # <<>>
           /\ LET ev == Head(_event_queue[s])
                  result == execute_tool(call[1], ParsedArgs(call[2]))
              IN  /\ _event_queue' = [_event_queue EXCEPT ![s] = Tail(@)]
                  /\ tStale' = [tStale EXCEPT ![t] =
                                   @ \/ ev.turn \in tPrev[t]]
                  /\ tTranscript' = [tTranscript EXCEPT ![t] =
                        IF ev.type = "transcript" /\ tKind[t] = "audio"
                        THEN TRUE ELSE @]
                  /\ tOut' = [tOut EXCEPT ![t] =
                        IF ev.type = "transcript" /\ tKind[t] = "audio"
                        THEN Append(@, "transcript") ELSE @]
                  /\ tResponse' = [tResponse EXCEPT ![t] =
                        IF ev.type = "text" THEN TRUE ELSE @]
                  /\ IF ev.type = "tool" /\ tKind[t] # "greeting"
                     THEN \* _handle_tool_call
                          /\ tToolCall' = [tToolCall EXCEPT ![t] =
                                [name |-> call[1], arguments |-> call[2],
                                 output |-> result]]
                          /\ IF result.kind = "raises" \/ _conn[s] # "open"
                             THEN /\ tPc' = [tPc EXCEPT ![t] = "aborted"]
                                  /\ UNCHANGED <<engine, nResp, tTools,
                                                 tFnOutputs, tFollowUps,
                                                 tEndedBy>>
                             ELSE /\ nResp < MaxResp
                                  /\ \E sc \in Scripts(tKind[t], TRUE) :
                                        engine' = [engine EXCEPT ![s] =
                                           Append(@, [turn |-> tNum[t],
                                                      rid |-> nResp + 1,
                                                      rest |-> sc])]
                                  /\ nResp' = nResp + 1
                                  /\ tTools' = [tTools EXCEPT ![t] = @ + 1]
                                  /\ tFnOutputs' = [tFnOutputs EXCEPT ![t] =
                                                       @ + 1]
                                  /\ tFollowUps' = [tFollowUps EXCEPT ![t] =
                                                       @ \cup {nResp + 1}]
                                  /\ UNCHANGED <<tPc, tEndedBy>>
                     ELSE /\ tPc' = [tPc EXCEPT ![t] =
                                IF Terminal(ev.type) THEN "persist" ELSE @]
                          /\ tEndedBy' = [tEndedBy EXCEPT ![t] =
                                IF Terminal(ev.type) THEN ev.rid ELSE @]
                          /\ UNCHANGED <<engine, nResp, tTools, tFnOutputs,
                                         tFollowUps, tToolCall>>
    /\ UNCHANGED profVars
    /\ UNCHANGED revVars
    /\ UNCHANGED corrVars
    /\ UNCHANGED first_event
    /\ UNCHANGED <<lifeVars, segments, _connected, _conn, _listener_task,
                   _turn_index, tSess, tKind, tNum, tPrev, nTurns, doneTurns,
                   delVars, endVars>>

\* asyncio.TimeoutError: no event arrived for 30 s; the loop stops
TimedOut == -2

turn_timeout(t) ==
    /\ tPc[t] = "loop"
    /\ _event_queue[tSess[t]] = <<>>
    /\ tPc' = [tPc EXCEPT ![t] = "persist"]
    /\ tEndedBy' = [tEndedBy EXCEPT ![t] = TimedOut]
    /\ UNCHANGED profVars
    /\ UNCHANGED revVars
    /\ UNCHANGED corrVars
    /\ UNCHANGED first_event
    /\ UNCHANGED <<lifeVars, segments, sessVars, engVars, tSess, tKind, tNum,
                   tTranscript, tResponse, tPrev, tStale, tTools, tFnOutputs,
                   tFollowUps, nTurns, doneTurns, tOut, tToolCall, delVars,
                   endVars>>

\* ----------------------------------------------- the segment write (db.py)
\* the segments table without its UNIQUE(session_id, turn_index) constraint
UniqueViolation_dropped(rows, idx) == FALSE

\* UNIQUE(session_id, turn_index): the INSERT raises IntegrityError when the
\* session already has a row with this turn index
UniqueViolation(rows, idx) == \E i \in DOMAIN rows : rows[i] = idx

\* self._turn_index += 1 runs only after execute and commit both returned
TurnIndexAfterCommit(idx, committed) == IF committed THEN idx + 1 ELSE idx

\* if response_text: yield the response item
ResponseItem(t) == IF tResponse[t] THEN <<"response">> ELSE <<>>

\* the tail of the generator: the total timing item and the done item
TurnDone(t, items) ==
    /\ tPc' = [tPc EXCEPT ![t] = "done"]
    /\ tOut' = [tOut EXCEPT ![t] = @ \o items \o <<"timing", "done">>]
    /\ doneTurns' = doneTurns \cup (IF tNum[t] > 0 THEN {tNum[t]} ELSE {})

\* except Exception as e: log.error("Failed to persist segment"); the
\* generator goes on to the timing and done items
SegmentWriteFailure(t, items) == TurnDone(t, items)

\* if transcript_text and response_text (audio), if text and response_text
\* (text)
ShouldPersist(transcript, response) == transcript /\ response

\* after the loop: the response item, then the INSERT when both texts are
\* non-empty.  execute() either adds the row or raises (constraint, I/O);
\* an exception is logged and the stream goes on to timing and done.
\* stream_greeting writes nothing.
turn_persist(t) ==
    /\ tPc[t] = "persist"
    /\ LET s == tSess[t]
       IN  IF tKind[t] # "greeting"
              /\ ShouldPersist(tTranscript[t], tResponse[t])
           THEN IF UniqueViolation(segments[s], _turn_index[s])
                THEN /\ SegmentWriteFailure(t, ResponseItem(t))
                     /\ UNCHANGED segments
                ELSE \/ /\ segments' = [segments EXCEPT ![s] =
                                           Append(@, _turn_index[s])]
                        /\ tPc' = [tPc EXCEPT ![t] = "commit"]
                        /\ tOut' = [tOut EXCEPT ![t] = @ \o ResponseItem(t)]
                        /\ UNCHANGED doneTurns
                     \/ /\ SegmentWriteFailure(t, ResponseItem(t))
                        /\ UNCHANGED segments
           ELSE TurnDone(t, ResponseItem(t)) /\ UNCHANGED segments
    /\ UNCHANGED profVars
    /\ UNCHANGED revVars
    /\ UNCHANGED corrVars
    /\ UNCHANGED first_event
    /\ UNCHANGED <<lifeVars, sessVars, engVars, tSess, tKind, tNum,
                   tTranscript, tResponse, tPrev, tStale, tEndedBy, tTools,
                   tFnOutputs, tFollowUps, nTurns, tToolCall, delVars,
                   endVars>>

\* await db.commit(), then self._turn_index += 1; when commit raises the
\* counter stays and the inserted row stays in the connection's transaction
turn_commit(t) ==
    /\ tPc[t] = "commit"
    /\ \E committed \in BOOLEAN :
          /\ _turn_index' = [_turn_index EXCEPT ![tSess[t]] =
                                TurnIndexAfterCommit(@, committed)]
          /\ IF committed THEN TurnDone(t, <<>>)
             ELSE SegmentWriteFailure(t, <<>>)
    /\ UNCHANGED profVars
    /\ UNCHANGED revVars
    /\ UNCHANGED corrVars
    /\ UNCHANGED first_event
    /\ UNCHANGED <<lifeVars, segments, _connected, _conn, _listener_task,
                   _event_queue, engVars, tSess, tKind, tNum, tTranscript,
                   tResponse, tPrev, tStale, tEndedBy, tTools, tFnOutputs,
                   tFollowUps, nTurns, tToolCall, delVars, endVars>>

\* ------------------------------------------------ sessions.delete_session
\* _sessions.pop; when the session is there: _session_modes.pop and the
\* synchronous head of session.close(): _connected = False, the listener is
\* cancelled; without a listener close() goes straight to self._conn.close()
\* a lookup that leaves the entry in the registry
RegistryAfterPop_get(registry, s) == registry

\* _sessions.pop(session_id, None): the lookup and the removal are one
\* statement, with no suspension point before the None check
RegistryAfterPop(registry, s) == registry \ {s}

\* close() with the connection closed before the listener is awaited
AwaitsListener_close_first(listener) == FALSE

\* if self._listener_task: cancel it and await it; the await suspends
\* close() until the task has terminated
AwaitsListener(listener) == listener \in {"running", "finished"}

delete_session(d, s) ==
    /\ dPc[d] = "idle"
    /\ dSess' = [dSess EXCEPT ![d] = s]
    /\ IF s \notin _sessions
       THEN /\ dPc' = [dPc EXCEPT ![d] = "notfound"]
            /\ UNCHANGED <<_sessions, _session_modes, dMode, _connected,
                           _listener_task, _conn>>
       ELSE /\ _sessions' = RegistryAfterPop(_sessions, s)
            /\ dMode' = [dMode EXCEPT ![d] =
                            IF _session_modes[s] = "absent" THEN "conversation"
                            ELSE _session_modes[s]]
            /\ _session_modes' = [_session_modes EXCEPT ![s] = "absent"]
            /\ _connected' = [_connected EXCEPT ![s] = FALSE]
            /\ IF AwaitsListener(_listener_task[s])
               THEN /\ _listener_task' = [_listener_task EXCEPT ![s] =
                          IF @ = "running" THEN "cancelled" ELSE @]
                    /\ dPc' = [dPc EXCEPT ![d] = "closing"]
                    /\ UNCHANGED _conn
               ELSE /\ _conn' = [_conn EXCEPT ![s] =
                                    IF @ = "open" THEN "closed" ELSE @]
                    /\ dPc' = [dPc EXCEPT ![d] = "update"]
                    /\ UNCHANGED _listener_task
    /\ UNCHANGED profVars
    /\ UNCHANGED revVars
    /\ UNCHANGED corrVars
    /\ UNCHANGED first_event
    /\ UNCHANGED <<createPc, connPc, dbStatus, segments, _event_queue,
                   _turn_index, engVars, turnVars, reviewTask, endVars>>

\* close(): the listener task was awaited; the connection is closed
delete_close(d) ==
    /\ dPc[d] = "closing"
    /\ dPc' = [dPc EXCEPT ![d] = "update"]
    /\ _conn' = [_conn EXCEPT ![dSess[d]] = IF @ = "open" THEN "closed" ELSE @]
    /\ UNCHANGED profVars
    /\ UNCHANGED revVars
    /\ UNCHANGED corrVars
    /\ UNCHANGED first_event
    /\ UNCHANGED <<lifeVars, segments, _connected, _listener_task,
                   _event_queue, _turn_index, engVars, turnVars, dSess, dMode,
                   reviewTask, endVars>>

\* a conversation-mode End that leaves the status as it was
DeleteStatus_kept_active(mode) == IF mode = "review" THEN ENDED ELSE ACTIVE

\* the status the UPDATE of delete_session writes
DeleteStatus(mode) == IF mode = "review" THEN ENDED ELSE REVIEWING

\* UPDATE sessions SET status = ... WHERE id = ?: no row, no effect
UpdateStatus(s, st) ==
    dbStatus' = [dbStatus EXCEPT ![s] = IF @ = "none" THEN @ ELSE st]

delete_update(d) ==
    /\ dPc[d] = "update"
    /\ UpdateStatus(dSess[d], DeleteStatus(dMode[d]))
    /\ dPc' = [dPc EXCEPT ![d] =
                  IF dMode[d] = "review" THEN "returned" ELSE "launch"]
    /\ UNCHANGED profVars
    /\ UNCHANGED revVars
    /\ UNCHANGED corrVars
    /\ UNCHANGED first_event
    /\ UNCHANGED <<_sessions, _session_modes, createPc, connPc, segments,
                   sessVars, engVars, turnVars, dSess, dMode, reviewTask,
                   endVars>>

\* commit, then asyncio.create_task(_run_review(session_id)) and return
delete_launch(d) ==
    /\ dPc[d] = "launch"
    /\ dPc' = [dPc EXCEPT ![d] = "returned"]
    /\ reviewTask' = [reviewTask EXCEPT ![d] = "launched"]
    /\ UNCHANGED profVars
    /\ UNCHANGED revVars
    /\ UNCHANGED corrVars
    /\ UNCHANGED first_event
    /\ UNCHANGED <<lifeVars, segments, sessVars, engVars, turnVars, dSess,
                   dMode, endVars>>

\* ------------------------------------------------ review.generate_review
\* the marks of an engine reply: the turn index a mark names and which of
\* its fields are filled
MarkTurns == {0, 1}
MarkShapes == {"full", "no_issue_types", "no_explanation"}
Marks == [turn_index : MarkTurns, shape : MarkShapes]
ReviewReplies(n) == UNION {[1..k -> Marks] : k \in 0..n}

\* the functions of review.py without their early return
NoSegments_never(rows) == FALSE

\* if not rows: log.warning(...) and return
NoSegments(rows) == rows = <<>>

\* seg_map.get(turn_idx): the id of the row with this turn index (rows are
\* in id order), 0 for None
SegMap(rows, turn_idx) ==
    IF \E i \in DOMAIN rows : rows[i] = turn_idx
    THEN CHOOSE i \in DOMAIN rows : rows[i] = turn_idx
    ELSE 0

\* the loop body without its second continue: only the segment is looked up
MarkInserted_unchecked(rows, mark) == SegMap(rows, mark.turn_index) # 0

\* the two continue statements of the loop: segment_id is None, or
\* not issue_types or not all([original, suggestion, explanation])
MarkInserted(rows, mark) ==
    /\ SegMap(rows, mark.turn_index) # 0
    /\ mark.shape = "full"

\* the rows the loop inserts, in the order of the reply
InsertedMarks(rows, reply) ==
    LET kept == SelectSeq(reply, LAMBDA m : MarkInserted(rows, m))
    IN  [i \in 1..Len(kept) |-> SegMap(rows, kept[i].turn_index)]

\* _run_review: generate_review runs to its end or to its exception, which
\* _run_review catches and logs.  Without segments it returns before the
\* engine is asked; otherwise chat_json returns the reply and the valid
\* marks are inserted and committed.  A chat_json that raises leaves the
\* tables as a reply without marks does, and is that case here.
_run_review(d, reply) ==
    /\ reviewTask[d] = "launched"
    /\ reviewTask' = [reviewTask EXCEPT ![d] = "done"]
    /\ LET s == dSess[d]
           rows == segments[s]
           call == [NoCall EXCEPT !.fn = "generate_review",
                                  !.rows = Len(rows)]
       IN  IF NoSegments(rows)
           THEN /\ lastCall' = [call EXCEPT !.outcome = "returned"]
                /\ UNCHANGED ai_marks
           ELSE /\ ai_marks' = [ai_marks EXCEPT ![s] =
                                    @ \o InsertedMarks(rows, reply)]
                /\ lastCall' = [call EXCEPT !.outcome = "returned",
                                            !.engine = TRUE,
                                            !.reply = reply]
    /\ UNCHANGED profVars
    /\ UNCHANGED first_event
    /\ UNCHANGED <<corrections, session_summaries, chat_summaries,
                   summary_schema, nCalls>>
    /\ UNCHANGED corrVars
    /\ UNCHANGED <<lifeVars, segments, sessVars, engVars, turnVars, dPc,
                   dSess, dMode, endVars>>

\* ---------------------------------------------- review.generate_correction
SegmentIds == {1, 2}

\* generate_correction without its if not rows: raise ValueError
SegmentInSession_unchecked(s, segment_id) == TRUE

\* SELECT ... FROM segments WHERE id = ? AND session_id = ?
SegmentInSession(s, segment_id) == segment_id \in DOMAIN segments[s]

\* ValueError without the row; otherwise chat_json is called and the
\* correction row is inserted
CorrectionRun(s, segment_id) ==
    /\ nCalls < MaxCalls
    /\ nCalls' = nCalls + 1
    /\ LET call == [NoCall EXCEPT !.fn = "generate_correction",
                                  !.segment_id = segment_id,
                                  !.rows = Len(segments[s])]
       IN  IF ~SegmentInSession(s, segment_id)
           THEN /\ lastCall' = [call EXCEPT !.outcome = "raised"]
                /\ UNCHANGED corrections
           ELSE \/ /\ corrections' = [corrections EXCEPT ![s] =
                                           Append(@, segment_id)]
                   /\ lastCall' = [call EXCEPT !.outcome = "returned",
                                               !.engine = TRUE]
                \/ /\ lastCall' = [call EXCEPT !.outcome = "raised",
                                               !.engine = TRUE]
                   /\ UNCHANGED corrections
    /\ UNCHANGED profVars
    /\ UNCHANGED first_event
    /\ UNCHANGED <<ai_marks, session_summaries, chat_summaries,
                   summary_schema>>
    /\ UNCHANGED <<lifeVars, segments, sessVars, engVars, turnVars, delVars,
                   endVars>>

\* a direct call of review.generate_correction
generate_correction(s, segment_id) ==
    /\ CorrectionRun(s, segment_id)
    /\ UNCHANGED corrVars

\* ------------------------------------------------- main.create_correction
\* SELECT id, status FROM sessions: 404 without a row, 400 unless the
\* status is reviewing or completed
create_correction(s, segment_id) ==
    /\ cPc = "idle"
    /\ cSess' = s
    /\ cSeg' = segment_id
    /\ cPc' = IF dbStatus[s] = "none" THEN "notfound"
              ELSE IF dbStatus[s] \notin {REVIEWING, COMPLETED}
                   THEN "rejected" ELSE "segment"
    /\ UNCHANGED gpPc
    /\ UNCHANGED profVars
    /\ UNCHANGED revVars
    /\ UNCHANGED first_event
    /\ UNCHANGED <<lifeVars, segments, sessVars, engVars, turnVars, delVars,
                   endVars>>

\* SELECT id FROM segments WHERE id = ? AND session_id = ?: 404 without it
create_correction_segment ==
    /\ cPc = "segment"
    /\ cPc' = IF SegmentInSession(cSess, cSeg) THEN "generate" ELSE "notfound"
    /\ UNCHANGED <<cSess, cSeg, gpPc>>
    /\ UNCHANGED profVars
    /\ UNCHANGED revVars
    /\ UNCHANGED first_event
    /\ UNCHANGED <<lifeVars, segments, sessVars, engVars, turnVars, delVars,
                   endVars>>

\* result = await generate_correction(...): its exception leaves the handler
create_correction_generate ==
    /\ cPc = "generate"
    /\ CorrectionRun(cSess, cSeg)
    /\ cPc' = IF lastCall'.outcome = "returned" THEN "returned" ELSE "failed"
    /\ UNCHANGED <<cSess, cSeg, gpPc>>

\* ------------------ review.generate_chat_summary / generate_session_review
\* the results the engine may give
Summaries == {1, 2}

\* INSERT OR REPLACE INTO chat_summaries (session_id, topic_id, summary) and
\* INSERT OR REPLACE INTO session_summaries (session_id, strengths,
\* weaknesses, overall): the statement gives no value for created_at (and
\* user_id), which SCHEMA declares NOT NULL without a default, so it raises
\* IntegrityError in a database made from SCHEMA; in an older database the
\* columns were added by init_db with DEFAULT '' and the row is replaced
UpsertRaises(schema) == schema = "created"

\* INSERT OR REPLACE on the primary key session_id: the session's row is
\* the new one
Upsert(row, result) == result

\* one run of a summary function on table tbl: without segments it returns
\* before the engine is asked; otherwise chat_json returns the result (or
\* raises) and the row is written
SummaryRun(fn, s, result, tbl) ==
    LET call == [NoCall EXCEPT !.fn = fn, !.rows = Len(segments[s])]
    IN  IF NoSegments(segments[s])
        THEN /\ lastCall' = [call EXCEPT !.outcome = "returned"]
             /\ tbl' = tbl
        ELSE \/ /\ ~UpsertRaises(summary_schema)
                /\ tbl' = [tbl EXCEPT ![s] = Upsert(@, result)]
                /\ lastCall' = [call EXCEPT !.outcome = "returned",
                                            !.engine = TRUE,
                                            !.result = result]
             \/ /\ UpsertRaises(summary_schema)
                /\ tbl' = tbl
                /\ lastCall' = [call EXCEPT !.outcome = "raised",
                                            !.engine = TRUE,
                                            !.result = result]
             \/ /\ tbl' = tbl
                /\ lastCall' = [call EXCEPT !.outcome = "raised",
                                            !.engine = TRUE]

generate_chat_summary(s, summary) ==
    /\ nCalls < MaxCalls
    /\ nCalls' = nCalls + 1
    /\ SummaryRun("generate_chat_summary", s, summary, chat_summaries)
    /\ UNCHANGED profVars
    /\ UNCHANGED first_event
    /\ UNCHANGED <<ai_marks, corrections, session_summaries, summary_schema>>
    /\ UNCHANGED corrVars
    /\ UNCHANGED <<lifeVars, segments, sessVars, engVars, turnVars, delVars,
                   endVars>>

generate_session_review(s, result) ==
    /\ nCalls < MaxCalls
    /\ nCalls' = nCalls + 1
    /\ SummaryRun("generate_session_review", s, result, session_summaries)
    /\ UNCHANGED profVars
    /\ UNCHANGED first_event
    /\ UNCHANGED <<ai_marks, corrections, chat_summaries, summary_schema>>
    /\ UNCHANGED corrVars
    /\ UNCHANGED <<lifeVars, segments, sessVars, engVars, turnVars, delVars,
                   endVars>>

\* ---------------------------------------------- profile.get_or_create_profile
\* with a row: the stored row is returned.  Without one: the INSERT gives
\* level NULL to a NOT NULL column and raises (see
\* get_or_create_profile_raises), no row is written
get_or_create_profile ==
    /\ nCalls < MaxCalls
    /\ nCalls' = nCalls + 1
    /\ lastCall' = [NoCall EXCEPT
          !.fn = "get_or_create_profile",
          !.outcome = IF get_or_create_profile_raises(
                            IF profLevel = "absent" THEN "new" ELSE profLevel)
                      THEN "raised" ELSE "returned"]
    /\ UNCHANGED profVars
    /\ UNCHANGED first_event
    /\ UNCHANGED <<ai_marks, corrections, session_summaries, chat_summaries,
                   summary_schema>>
    /\ UNCHANGED corrVars
    /\ UNCHANGED <<lifeVars, segments, sessVars, engVars, turnVars, delVars,
                   endVars>>

\* PRIMARY KEY user_id: a second row for the user is refused
PrimaryKeyViolation(level) == level # "absent"

\* get_or_create_profile of coroutine c, first part: the SELECT; with a row
\* the profile is returned
get_or_create_profile_select(c) ==
    /\ gpPc[c] = "idle"
    /\ gpPc' = [gpPc EXCEPT ![c] =
                   IF profLevel # "absent" THEN "returned" ELSE "insert"]
    /\ UNCHANGED <<cPc, cSess, cSeg>>
    /\ UNCHANGED profVars
    /\ UNCHANGED revVars
    /\ UNCHANGED first_event
    /\ UNCHANGED <<lifeVars, segments, sessVars, engVars, turnVars, delVars,
                   endVars>>

\* second part, after the SELECT found no row: the INSERT with level None
\* raises IntegrityError (NOT NULL, or PRIMARY KEY when the row was created
\* in between), otherwise the row is created and the default is returned
get_or_create_profile_insert(c) ==
    /\ gpPc[c] = "insert"
    /\ IF get_or_create_profile_raises("new") \/ PrimaryKeyViolation(profLevel)
       THEN /\ gpPc' = [gpPc EXCEPT ![c] = "raised"]
            /\ UNCHANGED profLevel
       ELSE /\ gpPc' = [gpPc EXCEPT ![c] = "returned"]
            /\ profLevel' = "null"
    /\ UNCHANGED <<cPc, cSess, cSeg>>
    /\ UNCHANGED <<profData, reqPc, evPc, evRes, pnPc, pnSnap, qrPc, qrSnap>>
    /\ UNCHANGED revVars
    /\ UNCHANGED first_event
    /\ UNCHANGED <<lifeVars, segments, sessVars, engVars, turnVars, delVars,
                   endVars>>

\* ------------------------------------------------------ main.end_session
\* SELECT id, user_id, status: 404 without a row, 400 when completed
end_session(f, s) ==
    /\ fPc[f] = "idle"
    /\ fSess' = [fSess EXCEPT ![f] = s]
    /\ fPc' = [fPc EXCEPT ![f] =
                  IF dbStatus[s] = "none" \/ dbStatus[s] = COMPLETED
                  THEN "rejected" ELSE "count"]
    /\ UNCHANGED profVars
    /\ UNCHANGED revVars
    /\ UNCHANGED corrVars
    /\ UNCHANGED first_event
    /\ UNCHANGED <<lifeVars, segments, sessVars, engVars, turnVars, delVars,
                   fCnt, fWrote, finTask, finSub>>

\* SELECT COUNT(*) FROM segments WHERE session_id = ?
end_count(f) ==
    /\ fPc[f] = "count"
    /\ fCnt' = [fCnt EXCEPT ![f] = Len(segments[fSess[f]])]
    /\ fPc' = [fPc EXCEPT ![f] = "write"]
    /\ UNCHANGED profVars
    /\ UNCHANGED revVars
    /\ UNCHANGED corrVars
    /\ UNCHANGED first_event
    /\ UNCHANGED <<lifeVars, segments, sessVars, engVars, turnVars, delVars,
                   fSess, fWrote, finTask, finSub>>

\* end_session without its zero-segment branch
EndStatus_no_short_circuit(cnt) == COMPLETING

\* if seg_count[0]["cnt"] == 0: completed at once, else completing
EndStatus(cnt) == IF cnt = 0 THEN COMPLETED ELSE COMPLETING

\* the UPDATE of end_session; the zero-segment branch commits and returns
end_write(f) ==
    /\ fPc[f] = "write"
    /\ UpdateStatus(fSess[f], EndStatus(fCnt[f]))
    /\ fWrote' = [fWrote EXCEPT ![f] = @ \cup {EndStatus(fCnt[f])}]
    /\ fPc' = [fPc EXCEPT ![f] =
                  IF EndStatus(fCnt[f]) = COMPLETED THEN "returned"
                  ELSE "launch"]
    /\ UNCHANGED profVars
    /\ UNCHANGED revVars
    /\ UNCHANGED corrVars
    /\ UNCHANGED first_event
    /\ UNCHANGED <<_sessions, _session_modes, createPc, connPc, segments,
                   sessVars, engVars, turnVars, delVars, fSess, fCnt, finTask,
                   finSub>>

\* commit, asyncio.create_task(_finalize_session(...)) and return
end_launch(f) ==
    /\ fPc[f] = "launch"
    /\ fPc' = [fPc EXCEPT ![f] = "returned"]
    /\ finTask' = [finTask EXCEPT ![f] = "launched"]
    /\ UNCHANGED profVars
    /\ UNCHANGED revVars
    /\ UNCHANGED corrVars
    /\ UNCHANGED first_event
    /\ UNCHANGED <<lifeVars, segments, sessVars, engVars, turnVars, delVars,
                   fSess, fCnt, fWrote, finSub>>

\* ------------------------------------------------- main._finalize_session
\* review.generate_session_review(session_id) declares one parameter
generate_session_review_params == 1
\* _finalize_session calls generate_session_review(session_id, user_id)
generate_session_review_args == 2

\* tasks = [generate_session_review(...), update_profile_after_session(...)]:
\* the list display evaluates the calls left to right.  A call of a
\* coroutine function with the wrong number of arguments raises TypeError
\* at once, inside the try block, before the second call is evaluated and
\* before asyncio.gather is reached.
BuildTasks ==
    IF generate_session_review_args = generate_session_review_params
    THEN [k \in SubTasks |->
             IF k = "chat_summary" THEN "notstarted" ELSE "created"]
    ELSE [k \in SubTasks |->
             IF k = "session_review" THEN "raised" ELSE "notstarted"]

Raised(subs) == \E k \in SubTasks : subs[k] = "raised"

\* the status write at the end of the try block instead of in finally
FinallyStatus_in_try(cur, raised) == IF raised THEN cur ELSE COMPLETED

\* finally: UPDATE sessions SET status = 'completed', whatever was raised
FinallyStatus(cur, raised) == COMPLETED

\* the finalization task: the try block raises while the task list is
\* built, the exception is logged and the finally block writes the status
_finalize_session(f) ==
    /\ finTask[f] = "launched"
    /\ finSub' = [finSub EXCEPT ![f] = BuildTasks]
    /\ IF Raised(BuildTasks)
       THEN /\ finTask' = [finTask EXCEPT ![f] = "done"]
            /\ UpdateStatus(fSess[f],
                            FinallyStatus(dbStatus[fSess[f]], TRUE))
       ELSE /\ finTask' = [finTask EXCEPT ![f] = "gather"]
            /\ UNCHANGED dbStatus
    /\ UNCHANGED profVars
    /\ UNCHANGED revVars
    /\ UNCHANGED corrVars
    /\ UNCHANGED first_event
    /\ UNCHANGED <<_sessions, _session_modes, createPc, connPc, segments,
                   sessVars, engVars, turnVars, delVars, fPc, fSess, fCnt,
                   fWrote>>

\* ------------------------------------------- main.evaluate_user_level
\* asyncio.gather(evaluate_level(user_id),
\*                _update_profile_data_sequentially(user_id)):
\* both coroutines are scheduled; the second one starts with
\* generate_progress_notes
evaluate_user_level(e) ==
    /\ reqPc[e] = "idle"
    /\ reqPc' = [reqPc EXCEPT ![e] = "gather"]
    /\ evPc' = [evPc EXCEPT ![e] = "pending"]
    /\ pnPc' = [pnPc EXCEPT ![e] = "pending"]
    /\ UNCHANGED <<profLevel, profData, evRes, pnSnap, qrPc, qrSnap>>
    /\ UNCHANGED first_event
    /\ UNCHANGED revVars
    /\ UNCHANGED corrVars
    /\ UNCHANGED <<lifeVars, segments, sessVars, engVars, turnVars, delVars,
                   endVars>>

\* profile.evaluate_level: get_or_create_profile and the summaries are read
evaluate_level_read(e) ==
    /\ evPc[e] = "pending"
    /\ evPc' = [evPc EXCEPT ![e] = "read"]
    /\ UNCHANGED <<profLevel, profData, reqPc, evRes, pnPc, pnSnap, qrPc,
                   qrSnap>>
    /\ UNCHANGED first_event
    /\ UNCHANGED revVars
    /\ UNCHANGED corrVars
    /\ UNCHANGED <<lifeVars, segments, sessVars, engVars, turnVars, delVars,
                   endVars>>

\* UPDATE user_profiles SET level = ?, updated_at = ?: the other columns of
\* the row stay as they are
LevelUpdate(row, level) == [row EXCEPT !.level = level]

\* the engine answered with a level and the UPDATE is executed and
\* committed, or chat_json raised
evaluate_level_write(e) ==
    /\ evPc[e] = "read"
    /\ \/ \E level \in EngineLevels :
             LET row == LevelUpdate([level |-> profLevel,
                                     profile_data |-> profData], level)
             IN  /\ evRes' = [evRes EXCEPT ![e] = level]
                 /\ profLevel' = row.level
                 /\ profData' = row.profile_data
                 /\ evPc' = [evPc EXCEPT ![e] = "done"]
       \/ /\ evPc' = [evPc EXCEPT ![e] = "raised"]
          /\ UNCHANGED <<evRes, profLevel, profData>>
    /\ UNCHANGED <<reqPc, pnPc, pnSnap, qrPc, qrSnap>>
    /\ UNCHANGED first_event
    /\ UNCHANGED revVars
    /\ UNCHANGED corrVars
    /\ UNCHANGED <<lifeVars, segments, sessVars, engVars, turnVars, delVars,
                   endVars>>

\* profile.generate_progress_notes: profile = get_or_create_profile(user_id)
generate_progress_notes_read(e) ==
    /\ pnPc[e] = "pending"
    /\ pnPc' = [pnPc EXCEPT ![e] = "read"]
    /\ pnSnap' = [pnSnap EXCEPT ![e] =
                     [level |-> profLevel, profile_data |-> profData]]
    /\ UNCHANGED <<profLevel, profData, reqPc, evPc, evRes, qrPc, qrSnap>>
    /\ UNCHANGED first_event
    /\ UNCHANGED revVars
    /\ UNCHANGED corrVars
    /\ UNCHANGED <<lifeVars, segments, sessVars, engVars, turnVars, delVars,
                   endVars>>

\* an UPDATE that writes the whole row back from the profile read earlier
ProfileDataUpdate_whole_row(row, snap, data) ==
    [snap EXCEPT !.profile_data = data]

\* UPDATE user_profiles SET profile_data = ?, updated_at = ?: the level
\* column stays as it is
ProfileDataUpdate(row, snap, data) == [row EXCEPT !.profile_data = data]

\* profile["profile_data"]["progress_notes"] = progress_notes: the data
\* written is the data read at the start of the job with the new notes
ProgressNotesData(snap, notes) ==
    [snap.profile_data EXCEPT !.progress_notes = notes]

\* the engine answered and the UPDATE is executed and committed, or
\* chat_json raised
generate_progress_notes_write(e) ==
    /\ pnPc[e] = "read"
    /\ \/ LET row == ProfileDataUpdate(
                        [level |-> profLevel, profile_data |-> profData],
                        pnSnap[e], ProgressNotesData(pnSnap[e], e))
          IN  /\ profLevel' = row.level
              /\ profData' = row.profile_data
              /\ pnPc' = [pnPc EXCEPT ![e] = "done"]
       \/ /\ pnPc' = [pnPc EXCEPT ![e] = "raised"]
          /\ UNCHANGED <<profLevel, profData>>
    /\ UNCHANGED <<reqPc, evPc, evRes, pnSnap, qrPc, qrSnap>>
    /\ UNCHANGED first_event
    /\ UNCHANGED revVars
    /\ UNCHANGED corrVars
    /\ UNCHANGED <<lifeVars, segments, sessVars, engVars, turnVars, delVars,
                   endVars>>

\* asyncio.gather over both profile_data jobs instead of two awaits in a row
QuickReviewMayStart_parallel(pn) == pn # "idle"

\* _update_profile_data_sequentially: await generate_progress_notes(...)
\* has returned before generate_quick_review(...) is called
QuickReviewMayStart(pn) == pn = "done"

\* profile.generate_quick_review: get_or_create_profile and the reads of
\* sessions, corrections, marks and review summaries
generate_quick_review_read(e) ==
    /\ reqPc[e] = "gather"
    /\ QuickReviewMayStart(pnPc[e])
    /\ qrPc[e] = "idle"
    /\ qrPc' = [qrPc EXCEPT ![e] = "read"]
    /\ UNCHANGED <<profLevel, profData, reqPc, evPc, evRes, pnPc, pnSnap,
                   qrSnap>>
    /\ UNCHANGED first_event
    /\ UNCHANGED revVars
    /\ UNCHANGED corrVars
    /\ UNCHANGED <<lifeVars, segments, sessVars, engVars, turnVars, delVars,
                   endVars>>

\* the engine answered and the latest profile_data is read again (SELECT
\* profile_data FROM user_profiles), or chat_json raised
generate_quick_review_reread(e) ==
    /\ qrPc[e] = "read"
    /\ \/ /\ qrPc' = [qrPc EXCEPT ![e] = "reread"]
          /\ qrSnap' = [qrSnap EXCEPT ![e] = profData]
       \/ /\ qrPc' = [qrPc EXCEPT ![e] = "raised"]
          /\ UNCHANGED qrSnap
    /\ UNCHANGED <<profLevel, profData, reqPc, evPc, evRes, pnPc, pnSnap>>
    /\ UNCHANGED first_event
    /\ UNCHANGED revVars
    /\ UNCHANGED corrVars
    /\ UNCHANGED <<lifeVars, segments, sessVars, engVars, turnVars, delVars,
                   endVars>>

\* current_data["quick_review"] = quick_review
QuickReviewData(current_data, quick_review) ==
    [current_data EXCEPT !.quick_review = quick_review]

\* the UPDATE with the re-read data is executed and committed
generate_quick_review_write(e) ==
    /\ qrPc[e] = "reread"
    /\ LET row == ProfileDataUpdate(
                      [level |-> profLevel, profile_data |-> profData],
                      [level |-> profLevel, profile_data |-> qrSnap[e]],
                      QuickReviewData(qrSnap[e], e))
       IN  /\ profLevel' = row.level
           /\ profData' = row.profile_data
    /\ qrPc' = [qrPc EXCEPT ![e] = "done"]
    /\ UNCHANGED <<reqPc, evPc, evRes, pnPc, pnSnap, qrSnap>>
    /\ UNCHANGED first_event
    /\ UNCHANGED revVars
    /\ UNCHANGED corrVars
    /\ UNCHANGED <<lifeVars, segments, sessVars, engVars, turnVars, delVars,
                   endVars>>

\* gather returned (both coroutines finished) and the profile is returned,
\* or gather raised the first exception of a coroutine
evaluate_user_level_return(e) ==
    /\ reqPc[e] = "gather"
    /\ \/ /\ evPc[e] = "done"
          /\ qrPc[e] = "done"
          /\ reqPc' = [reqPc EXCEPT ![e] = "returned"]
       \/ /\ "raised" \in {evPc[e], pnPc[e], qrPc[e]}
          /\ reqPc' = [reqPc EXCEPT ![e] = "failed"]
    /\ UNCHANGED <<profLevel, profData, evPc, evRes, pnPc, pnSnap, qrPc,
                   qrSnap>>
    /\ UNCHANGED first_event
    /\ UNCHANGED revVars
    /\ UNCHANGED corrVars
    /\ UNCHANGED <<lifeVars, segments, sessVars, engVars, turnVars, delVars,
                   endVars>>

\* ------------------------------------------------------ specifications
\* requests take the lowest free slot
FirstFreeTurn(t) == TurnFree(t) /\ \A u \in TurnSlots : TurnFree(u) => t <= u
FirstIdleDel(d) == \A u \in DelSlots : dPc[u] = "idle" => d <= u
FirstIdleEnd(f) == \A u \in EndSlots : fPc[u] = "idle" => f <= u

\* the steps of the chat streams
TurnSteps(calls) ==
    \/ \E t \in TurnSlots : turn_begin(t)
    \/ \E t \in TurnSlots : turn_submit(t)
    \/ \E t \in TurnSlots, call \in calls : turn_event(t, call)
    \/ \E t \in TurnSlots : turn_persist(t)
    \/ \E t \in TurnSlots : turn_commit(t)

\* Spec: the whole service from start-up; the client sends one chat request
\* at a time
Next ==
    \/ \E s \in Sessions, m \in Modes, l \in Levels : create_session(s, m, l)
    \/ \E s \in Sessions : create_session_persist(s)
    \/ \E s \in Sessions : connect_open(s)
    \/ \E s \in Sessions : connect_configured(s)
    \/ \E s \in Sessions : connect_failed(s)
    \/ \E s \in Sessions : _listen_loop(s)
    \/ \E t \in TurnSlots, s \in Sessions, k \in {"audio", "text"} :
          /\ nTurns < MaxLifeTurns
          /\ \A u \in TurnSlots : TurnFree(u)
          /\ FirstFreeTurn(t)
          /\ chat(t, s, k)
    \/ TurnSteps(SchemaToolCalls)
    \/ \E t \in TurnSlots : turn_timeout(t)
    \/ \E d \in OneDelSlot, s \in Sessions :
          FirstIdleDel(d) /\ delete_session(d, s)
    \/ \E d \in DelSlots : delete_close(d)
    \/ \E d \in DelSlots : delete_update(d)
    \/ \E d \in DelSlots : delete_launch(d)
    \/ \E d \in DelSlots, r \in ReviewReplies(0) : _run_review(d, r)
    \/ \E f \in OneEndSlot, s \in Sessions :
          FirstIdleEnd(f) /\ end_session(f, s)
    \/ \E f \in EndSlots : end_count(f)
    \/ \E f \in EndSlots : end_write(f)
    \/ \E f \in EndSlots : end_launch(f)
    \/ \E f \in EndSlots : _finalize_session(f)

Spec == Init /\ [][Next]_vars

\* SpecTurn: one session that create_session and connect() have set up
\* (row active, registered, connected, listener running, greeting
\* requested); the client sends one chat or start request at a time, the
\* engine may stall, may issue any tool call, and the connection may break
InitTurn ==
    /\ _sessions = Sessions
    /\ _session_modes = [s \in Sessions |-> "conversation"]
    /\ createPc = [s \in Sessions |-> "done"]
    /\ connPc = [s \in Sessions |-> "done"]
    /\ dbStatus = [s \in Sessions |-> ACTIVE]
    /\ segments = [s \in Sessions |-> <<>>]
    /\ _connected = [s \in Sessions |-> TRUE]
    /\ _conn = [s \in Sessions |-> "open"]
    /\ _listener_task = [s \in Sessions |-> "running"]
    /\ _event_queue = [s \in Sessions |-> <<>>]
    /\ _turn_index = [s \in Sessions |-> 0]
    /\ \E sc \in Scripts("text", TRUE) :
          engine = [s \in Sessions |-> <<[turn |-> 0, rid |-> 1, rest |-> sc]>>]
    /\ nResp = 1
    /\ first_event = [s \in Sessions |-> "none"]
    /\ InitRequests
    /\ InitProfile
    /\ InitTables

NextTurn ==
    \/ \E s \in Sessions : _listen_loop(s)
    \/ \E s \in Sessions : _listen_loop_error(s)
    \/ \E s \in Sessions : _listen_loop_closed(s)
    \/ \E t \in TurnSlots, s \in Sessions, k \in {"audio", "text"} :
          /\ \A u \in TurnSlots : TurnFree(u)
          /\ FirstFreeTurn(t)
          /\ chat(t, s, k)
    \/ \E t \in TurnSlots, s \in Sessions :
          /\ \A u \in TurnSlots : TurnFree(u)
          /\ FirstFreeTurn(t)
          /\ start_session(t, s)
    \/ TurnSteps(ToolCalls)
    \/ \E t \in TurnSlots : turn_timeout(t)

SpecTurn == InitTurn /\ [][NextTurn]_vars

\* SpecRace: the same session, with chat requests that arrive while another
\* stream of the session is still running; every slot serves one request
NextRace ==
    \/ \E s \in Sessions : _listen_loop(s)
    \/ \E t \in TurnSlots, s \in Sessions, k \in {"audio", "text"} :
          tPc[t] = "idle" /\ FirstFreeTurn(t) /\ chat(t, s, k)
    \/ TurnSteps(SchemaToolCalls)
    \/ \E t \in TurnSlots : turn_timeout(t)

SpecRace == InitTurn /\ [][NextRace]_vars

\* SpecProfile: evaluate requests for one user whose profile row exists
FirstIdleEval(e) == \A u \in EvalSlots : reqPc[u] = "idle" => e <= u

NextProfile ==
    \/ \E e \in EvalSlots : FirstIdleEval(e) /\ evaluate_user_level(e)
    \/ \E e \in EvalSlots : evaluate_level_read(e)
    \/ \E e \in EvalSlots : evaluate_level_write(e)
    \/ \E e \in EvalSlots : generate_progress_notes_read(e)
    \/ \E e \in EvalSlots : generate_progress_notes_write(e)
    \/ \E e \in EvalSlots : generate_quick_review_read(e)
    \/ \E e \in EvalSlots : generate_quick_review_reread(e)
    \/ \E e \in EvalSlots : generate_quick_review_write(e)
    \/ \E e \in EvalSlots : evaluate_user_level_return(e)

SpecProfile == Init /\ [][NextProfile]_vars

\* SpecConnect: the set-up and the End of a session with connect() followed
\* step by step
NextConnect ==
    \/ \E s \in Sessions, m \in Modes, l \in Levels : create_session(s, m, l)
    \/ \E s \in Sessions : create_session_persist(s)
    \/ \E s \in Sessions : connect_open(s)
    \/ \E s \in Sessions : connect_recv(s)
    \/ \E s \in Sessions : connect_greeting(s)
    \/ \E s \in Sessions : connect_failed(s)
    \/ \E s \in Sessions : _listen_loop(s)
    \/ \E s \in Sessions : _listen_loop_error(s)
    \/ \E s \in Sessions : _listen_loop_closed(s)
    \/ \E d \in DelSlots, s \in Sessions :
          FirstIdleDel(d) /\ delete_session(d, s)
    \/ \E d \in DelSlots : delete_close(d)
    \/ \E d \in DelSlots : delete_update(d)
    \/ \E d \in DelSlots : delete_launch(d)
    \/ \E d \in DelSlots, r \in ReviewReplies(0) : _run_review(d, r)

SpecConnect == Init /\ [][NextConnect]_vars

\* SpecStream: the whole service as in Spec, with start requests as well
\* and with an engine whose review reply may hold a mark
NextStream ==
    \/ \E s \in Sessions, m \in Modes, l \in Levels : create_session(s, m, l)
    \/ \E s \in Sessions : create_session_persist(s)
    \/ \E s \in Sessions : connect_open(s)
    \/ \E s \in Sessions : connect_configured(s)
    \/ \E s \in Sessions : connect_failed(s)
    \/ \E s \in Sessions : _listen_loop(s)
    \/ \E t \in TurnSlots, s \in Sessions, k \in {"audio", "text"} :
          /\ nTurns < MaxLifeTurns
          /\ \A u \in TurnSlots : TurnFree(u)
          /\ FirstFreeTurn(t)
          /\ chat(t, s, k)
    \/ \E t \in TurnSlots, s \in Sessions :
          /\ nTurns < MaxLifeTurns
          /\ \A u \in TurnSlots : TurnFree(u)
          /\ FirstFreeTurn(t)
          /\ start_session(t, s)
    \/ TurnSteps(SchemaToolCalls)
    \/ \E t \in TurnSlots : turn_timeout(t)
    \/ \E d \in OneDelSlot, s \in Sessions :
          FirstIdleDel(d) /\ delete_session(d, s)
    \/ \E d \in DelSlots : delete_close(d)
    \/ \E d \in DelSlots : delete_update(d)
    \/ \E d \in DelSlots : delete_launch(d)
    \/ \E d \in DelSlots, r \in ReviewReplies(1) : _run_review(d, r)
    \/ \E f \in OneEndSlot, s \in Sessions :
          FirstIdleEnd(f) /\ end_session(f, s)
    \/ \E f \in EndSlots : end_count(f)
    \/ \E f \in EndSlots : end_write(f)
    \/ \E f \in EndSlots : end_launch(f)
    \/ \E f \in EndSlots : _finalize_session(f)

SpecStream == Init /\ [][NextStream]_vars

\* SpecReview: a database with one session that was ended in conversation
\* mode (row reviewing, review task launched) after 0, 1 or 2 turns, and a
\* user with or without a profile row; the review.py functions and
\* get_or_create_profile are called on it in any order
InitReview ==
    /\ _sessions = {}
    /\ _session_modes = [s \in Sessions |-> "absent"]
    /\ createPc = [s \in Sessions |-> "done"]
    /\ connPc = [s \in Sessions |-> "done"]
    /\ dbStatus = [s \in Sessions |-> REVIEWING]
    /\ \E rows \in {<<>>, <<0>>, <<0, 1>>} :
          /\ segments = [s \in Sessions |-> rows]
          /\ _turn_index = [s \in Sessions |-> Len(rows)]
    /\ _connected = [s \in Sessions |-> FALSE]
    /\ _conn = [s \in Sessions |-> "closed"]
    /\ _listener_task = [s \in Sessions |-> "cancelled"]
    /\ _event_queue = [s \in Sessions |-> <<>>]
    /\ engine = [s \in Sessions |-> <<>>]
    /\ nResp = 1
    /\ first_event = [s \in Sessions |-> "none"]
    /\ InitTurns
    /\ InitEnds
    /\ dPc = [d \in DelSlots |-> IF d = 1 THEN "returned" ELSE "idle"]
    /\ dSess = [d \in DelSlots |->
                   IF d = 1 THEN CHOOSE s \in Sessions : TRUE ELSE NoSession]
    /\ dMode = [d \in DelSlots |-> "conversation"]
    /\ reviewTask = [d \in DelSlots |-> IF d = 1 THEN "launched" ELSE "none"]
    /\ profLevel \in {"absent", InitRow.level}
    /\ profData = InitRow.profile_data
    /\ InitEvaluations
    /\ InitReviewRows
    /\ InitCorrections
    /\ summary_schema \in {"created", "migrated"}

NextReview ==
    \/ \E d \in DelSlots, r \in ReviewReplies(MaxMarks) : _run_review(d, r)
    \/ \E s \in Sessions, g \in SegmentIds : generate_correction(s, g)
    \/ \E s \in Sessions, r \in Summaries : generate_chat_summary(s, r)
    \/ \E s \in Sessions, r \in Summaries : generate_session_review(s, r)
    \/ get_or_create_profile

SpecReview == InitReview /\ [][NextReview]_vars

\* SpecFinalize: a database with one session after its turns, still live
\* (active) or ended in conversation mode (reviewing, marks generated) or in
\* review mode (ended); the client posts a correction and up to two end
\* requests, and an evaluate request runs get_or_create_profile in its two
\* coroutines for a user with or without a profile row
SessionKinds == {"live", "reviewing", "ended"}

InitFinalize ==
    /\ \E kind \in SessionKinds, rows \in {<<>>, <<0>>, <<0, 1>>} :
          /\ _sessions = IF kind = "live" THEN Sessions ELSE {}
          /\ _session_modes = [s \in Sessions |->
                IF kind = "live" THEN "conversation" ELSE "absent"]
          /\ dbStatus = [s \in Sessions |->
                CASE kind = "live" -> ACTIVE
                  [] kind = "reviewing" -> REVIEWING
                  [] kind = "ended" -> ENDED]
          /\ segments = [s \in Sessions |-> rows]
          /\ _turn_index = [s \in Sessions |-> Len(rows)]
          /\ _connected = [s \in Sessions |-> kind = "live"]
          /\ _conn = [s \in Sessions |->
                IF kind = "live" THEN "open" ELSE "closed"]
          /\ _listener_task = [s \in Sessions |->
                IF kind = "live" THEN "running" ELSE "cancelled"]
          /\ dPc = [d \in DelSlots |->
                IF d = 1 /\ kind # "live" THEN "returned" ELSE "idle"]
          /\ dSess = [d \in DelSlots |->
                IF d = 1 /\ kind # "live"
                THEN CHOOSE s \in Sessions : TRUE ELSE NoSession]
          /\ dMode = [d \in DelSlots |->
                IF d = 1 /\ kind = "ended" THEN "review" ELSE "conversation"]
          /\ reviewTask = [d \in DelSlots |->
                IF d = 1 /\ kind = "reviewing" THEN "done" ELSE "none"]
    /\ createPc = [s \in Sessions |-> "done"]
    /\ connPc = [s \in Sessions |-> "done"]
    /\ _event_queue = [s \in Sessions |-> <<>>]
    /\ engine = [s \in Sessions |-> <<>>]
    /\ nResp = 1
    /\ first_event = [s \in Sessions |-> "none"]
    /\ InitTurns
    /\ InitEnds
    /\ profLevel \in {"absent", InitRow.level}
    /\ profData = InitRow.profile_data
    /\ InitEvaluations
    /\ InitTables

NextFinalize ==
    \/ \E s \in Sessions, g \in SegmentIds : create_correction(s, g)
    \/ create_correction_segment
    \/ create_correction_generate
    \/ \E f \in EndSlots, s \in Sessions :
          FirstIdleEnd(f) /\ end_session(f, s)
    \/ \E f \in EndSlots : end_count(f)
    \/ \E f \in EndSlots : end_write(f)
    \/ \E f \in EndSlots : end_launch(f)
    \/ \E f \in EndSlots : _finalize_session(f)
    \/ \E c \in ProfileCallers : get_or_create_profile_select(c)
    \/ \E c \in ProfileCallers : get_or_create_profile_insert(c)

SpecFinalize == InitFinalize /\ [][NextFinalize]_vars

\* FairSpec: Spec with the event loop's scheduling: a request that is past
\* its await and a task that was created are eventually run
FairSpec ==
    /\ Spec
    /\ \A f \in EndSlots : WF_vars(end_launch(f))
    /\ \A f \in EndSlots : WF_vars(_finalize_session(f))

\* FairFinalize: SpecFinalize with the same scheduling
FairFinalize ==
    /\ SpecFinalize
    /\ \A f \in EndSlots : WF_vars(end_launch(f))
    /\ \A f \in EndSlots : WF_vars(_finalize_session(f))

\* FairTurn: SpecTurn with the event loop's scheduling: a generator that is
\* being consumed runs on, and a wait on the Event Channel ends with an
\* event or with the 30 s timeout
FairTurn ==
    /\ SpecTurn
    /\ \A t \in TurnSlots :
          /\ WF_vars(turn_begin(t))
          /\ WF_vars(turn_submit(t))
          /\ WF_vars((\E call \in ToolCalls : turn_event(t, call))
                        \/ turn_timeout(t))
          /\ WF_vars(turn_persist(t))
          /\ WF_vars(turn_commit(t))

\* ---------------------------------------------------------------- claims
\* the request took the completing branch of end_session
Accepted(f) == fCnt[f] > 0 /\ fPc[f] \in {"launch", "returned"}

\* the persisted status of the session a Finalize request is about
StatusOf(f) == IF fSess[f] \in Sessions THEN dbStatus[fSess[f]] ELSE "none"

\* C1: once a Finalize request that counted at least one Segment has
\* written completing, the persisted status becomes completed at some later
\* point, also when finalization sub-tasks raise
C1_FinalizeCompletes ==
    \A f \in EndSlots :
        (fCnt[f] > 0 /\ fPc[f] = "launch") ~> (StatusOf(f) = COMPLETED)

C1_Witness ==
    \E f \in EndSlots :
        /\ Accepted(f)
        /\ finTask[f] = "done"
        /\ Raised(finSub[f])
        /\ StatusOf(f) = COMPLETED

\* C2: the turn_index values of a session's segments, in creation order,
\* are 0, 1, ..., n-1
C2_TurnIndexContiguous ==
    \A s \in Sessions :
        \A i \in DOMAIN segments[s] : segments[s][i] = i - 1

C2_Witness ==
    \E s \in Sessions :
        /\ Len(segments[s]) = 2
        /\ _turn_index[s] = 2
        /\ \A t \in TurnSlots : TurnFree(t)

\* C3: every handled tool call gives one function output and one follow-up
\* response request, and a turn that handled a tool call and left its loop
\* on a response's terminal event left it on the terminal event of a
\* follow-up response
C3_ToolFollowUp ==
    \A t \in TurnSlots :
        /\ tFnOutputs[t] = tTools[t]
        /\ Cardinality(tFollowUps[t]) = tTools[t]
        /\ (tPc[t] = "done" /\ tTools[t] > 0 /\ tEndedBy[t] > 0)
              => tEndedBy[t] \in tFollowUps[t]

\* C4: a turn never consumes an event the engine generated for a turn that
\* had emitted done before this turn drained the Event Channel
C4_NoStaleEvents == \A t \in TurnSlots : ~tStale[t]

\* C5: no step moves a session's persisted status to an earlier state
C5_StatusNeverRegresses ==
    [][\A s \in Sessions : Rank(dbStatus'[s]) >= Rank(dbStatus[s])]_vars

\* C6: a segment row is inserted only while the session's status is active
C6_SegmentOnlyWhileActive ==
    [][\A s \in Sessions :
          segments'[s] # segments[s] => dbStatus[s] = ACTIVE]_vars

\* a stream that has drained the Event Channel and not yet emitted done
TurnActive(t) == tPc[t] \in {"submit", "loop", "persist", "commit"}

\* C7: no two streams of one session are active at the same time
C7_TurnsSequential ==
    \A t, u \in TurnSlots :
        (t # u /\ tSess[t] = tSess[u]) => ~(TurnActive(t) /\ TurnActive(u))

\* C8: a Finalize request that counted zero segments wrote completed and
\* nothing else, and launched no finalization task
C8_ZeroSegmentFinalize ==
    \A f \in EndSlots :
        (fCnt[f] = 0 /\ fPc[f] = "returned")
            => /\ fWrote[f] = {COMPLETED}
               /\ finTask[f] = "none"
               /\ finSub[f] = [k \in SubTasks |-> "notstarted"]

C8_Witness ==
    \E f \in EndSlots :
        /\ fCnt[f] = 0
        /\ fPc[f] = "returned"
        /\ StatusOf(f) = COMPLETED

\* C9: when the finalization task has written completed, session review
\* and profile update have each finished or failed
C9_CompletedAfterAllTasks ==
    \A f \in EndSlots :
        finTask[f] = "done"
            => \A k \in {"session_review", "profile_update"} :
                  finSub[f][k] \in {"finished", "raised"}

\* C10: from the return of an accepted Finalize request to the end of its
\* finalization task the persisted status is completing or completed
C10_StatusAfterFinalizeReturn ==
    \A f \in EndSlots :
        (Accepted(f) /\ fPc[f] = "returned" /\ finTask[f] = "launched")
            => StatusOf(f) \in {COMPLETING, COMPLETED}

\* C11: when the finalization task of a session with at least one Segment
\* has written completed, its session-review sub-task has run to the end,
\* that is, it has written the session summary row
C11_SummaryAtCompleted ==
    \A f \in EndSlots :
        (fCnt[f] > 0 /\ finTask[f] = "done")
            => finSub[f]["session_review"] = "finished"

\* no other evaluate request was started
OnlyRequest(e) == \A u \in EvalSlots \ {e} : reqPc[u] = "idle"

\* C12: level evaluation and the profile_data jobs of one evaluate request
\* run concurrently and neither write is lost: once the evaluation has
\* written, the stored level is its result, and once a profile_data job has
\* written, the stored profile_data holds its result
C12_NoLostWrite ==
    \A e \in EvalSlots :
        OnlyRequest(e) =>
            /\ evPc[e] = "done" => profLevel = evRes[e]
            /\ pnPc[e] = "done" => profData.progress_notes = e
            /\ qrPc[e] = "done" => profData.quick_review = e

\* the evaluation wrote the level between the read and the write of the
\* progress-notes job
C12_Witness ==
    \E e \in EvalSlots :
        /\ OnlyRequest(e)
        /\ evPc[e] = "done"
        /\ pnPc[e] = "done"
        /\ pnSnap[e].level # evRes[e]
        /\ profLevel = evRes[e]
        /\ profData.progress_notes = e

\* C13: quick-review generation of a request has not started unless its
\* progress-notes generation has committed, and when no other request
\* writes the row the profile_data stored after both holds the new
\* progress_notes and the new quick_review
C13_ProfileJobsSequential ==
    \A e \in EvalSlots :
        /\ qrPc[e] # "idle" => pnPc[e] = "done"
        /\ (OnlyRequest(e) /\ qrPc[e] = "done")
              => profData = [progress_notes |-> e, quick_review |-> e]

C13_Witness ==
    \E e \in EvalSlots :
        /\ OnlyRequest(e)
        /\ reqPc[e] = "returned"
        /\ profData = [progress_notes |-> e, quick_review |-> e]

\* C14: the write of a profile_data job keeps what other jobs have
\* committed: writing progress_notes leaves the stored quick_review as it
\* is, and writing quick_review leaves the stored progress_notes as it is
C14_WriteKeepsOtherJobsData ==
    [][\A e \in EvalSlots :
          /\ (pnPc[e] = "read" /\ pnPc'[e] = "done")
                => profData'.quick_review = profData.quick_review
          /\ (qrPc[e] = "reread" /\ qrPc'[e] = "done")
                => profData'.progress_notes = profData.progress_notes]_vars

\* the tasks a DELETE request has created so far
LaunchedBy(d) == IF reviewTask[d] = "none" THEN {} ELSE {"_run_review"}

\* C15: when End on a conversation-mode session writes the status, the
\* session is out of the registry, its listener is not running and its
\* connection is not open, the status written is reviewing and no review
\* task exists yet; the review task is created once, after the status write
C15_EndConversationOrder ==
    [][\A d \in DelSlots :
          /\ (dMode[d] = "conversation" /\ dPc[d] = "update"
                 /\ dPc'[d] # "update" /\ dbStatus[dSess[d]] # "none")
                => /\ dSess[d] \notin _sessions
                   /\ _listener_task[dSess[d]] # "running"
                   /\ _conn[dSess[d]] # "open"
                   /\ dbStatus'[dSess[d]] = REVIEWING
                   /\ LaunchedBy(d) = {}
          /\ reviewTask'[d] # reviewTask[d] /\ reviewTask[d] = "none"
                => dPc[d] = "launch" /\ dMode[d] = "conversation"]_vars

\* C16: a returned End on a review-mode session has created no review-mark
\* task and has created the review-summary and profile-update finalization
C16_EndReviewLaunchesFinalization ==
    \A d \in DelSlots :
        (dMode[d] = "review" /\ dPc[d] = "returned")
            => /\ "_run_review" \notin LaunchedBy(d)
               /\ "review_finalization" \in LaunchedBy(d)

\* C17: a session leaves the registry only in the step of a DELETE request
\* that pops it
C17_RegistryRemovalOnlyAtEnd ==
    [][\A s \in Sessions :
          (s \in _sessions /\ s \notin _sessions')
             => \E d \in DelSlots :
                   dPc[d] = "idle" /\ dPc'[d] # "idle" /\ dSess'[d] = s]_vars

\* C18: Create does not fail for any user and mode, and a Create that has
\* ended left a registry entry exactly when it left a session row
C18_CreateRegistersAndPersists ==
    \A s \in Sessions :
        /\ createPc[s] # "failed"
        /\ createPc[s] = "done" => dbStatus[s] # "none"
        /\ (createPc[s] = "failed" /\ s \in _sessions) => dbStatus[s] # "none"

\* C19: the event whose receipt makes a session connected is the
\* configuration acknowledgement (session.updated)
C19_ConnectedAfterAcknowledgement ==
    [][\A s \in Sessions :
          (~_connected[s] /\ _connected'[s])
             => first_event'[s] = "session.updated"]_vars

\* C20: whenever the listener stops by itself (read error or normal close)
\* the step that ends it appends the sentinel to the Event Channel
C20_SentinelWheneverListenerStops ==
    [][\A s \in Sessions :
          (_listener_task[s] = "running" /\ _listener_task'[s] = "finished")
             => _event_queue'[s] = Append(_event_queue[s], Sentinel)]_vars

\* a step in which request t was refused, or its generator raised at its
\* first check, on a session that is registered and not connected
FailsNotConnected(t) ==
    \/ /\ tPc'[t] = "rejected"
       /\ tPc[t] # "rejected" \/ tKind'[t] # tKind[t]
       /\ tSess'[t] \in _sessions
       /\ ~_connected[tSess'[t]]
    \/ /\ tPc[t] = "stream"
       /\ tPc'[t] = "aborted"

\* C21: a turn or greeting stream started on a session that is not
\* connected fails without any effect: the Event Channel is not drained,
\* nothing is submitted to the engine, no segment is written, the turn
\* counter stays, and the session is left as it was (it connects and serves
\* later requests as if this one had not been made)
C21_NotConnectedHasNoEffect ==
    [][\A t \in TurnSlots :
          FailsNotConnected(t)
             => UNCHANGED <<_event_queue, engine, nResp, segments,
                            _turn_index, lifeVars, _connected, _conn,
                            _listener_task, tOut>>]_vars

C21_Witness ==
    \E t \in TurnSlots :
        /\ tPc[t] = "aborted"
        /\ tKind[t] # "greeting"
        /\ tPrev[t] = {}
        /\ tOut[t] = <<>>
        /\ ~_connected[tSess[t]]
        /\ _event_queue[tSess[t]] # <<>>

\* the number of done items in a sequence of output items
DoneItems(out) == Cardinality({i \in DOMAIN out : out[i] = "done"})

\* C22: every stream that started on a connected session emits the done
\* item exactly once and as its last item: a generator that passed its
\* connected check never ends by an exception, it leaves the loop for its
\* tail, the tail ends with done also when the segment write fails, and
\* nothing is emitted after done
C22_DoneExactlyOnceAndLast ==
    /\ [](\A t \in TurnSlots :
            IF tPc[t] = "done"
            THEN /\ DoneItems(tOut[t]) = 1
                 /\ tOut[t][Len(tOut[t])] = "done"
            ELSE DoneItems(tOut[t]) = 0)
    /\ [][\A t \in TurnSlots :
            /\ (tPc[t] \in {"submit", "loop"})
                  => tPc'[t] \in {"submit", "loop", "persist"}
            /\ (tPc[t] \in {"persist", "commit"})
                  => tPc'[t] \in {"persist", "commit", "done"}]_vars

\* the step in which turn t inserts its segment row
WritesSegment(t) ==
    /\ tPc[t] = "persist"
    /\ Len(segments'[tSess[t]]) > Len(segments[tSess[t]])

\* C23: a segment is written for a turn only if both the user text and the
\* reply text of that turn are non-empty, and never for a turn whose event
\* loop ended by timeout
C23_NoSegmentAfterTimeout ==
    [][\A t \in TurnSlots :
          WritesSegment(t)
             => /\ tTranscript[t] /\ tResponse[t]
                /\ tEndedBy[t] # TimedOut]_vars

\* the step in which turn t handles a tool call on an open connection
HandlesToolCall(t) ==
    /\ tPc[t] = "loop"
    /\ tToolCall'[t] # tToolCall[t]
    /\ _conn[tSess[t]] = "open"

\* C24: handling a tool call never fails the turn because of the name or
\* the arguments: the output is submitted and the loop goes on, an unknown
\* name gives the error payload, arguments that are not a JSON object with
\* a query give the tool's output for empty arguments
C24_ToolCallNeverFailsTurn ==
    [][\A t \in TurnSlots :
          HandlesToolCall(t)
             => LET call == tToolCall'[t]
                IN  /\ tPc'[t] = "loop"
                    /\ tFnOutputs'[t] = tFnOutputs[t] + 1
                    /\ call.name # "search_news"
                          => call.output = [kind |-> "error",
                                            about |-> call.name]
                    /\ (call.name = "search_news"
                           /\ call.arguments # "{\"query\": \"tea\"}")
                          => call.output = [kind |-> "articles",
                                            about |-> ""]]_vars

\* the step in which review task d ran generate_review with an engine reply
ReviewReturned(d) ==
    /\ reviewTask[d] = "launched"
    /\ reviewTask'[d] = "done"
    /\ lastCall'.engine
    /\ lastCall'.outcome = "returned"

\* C25: generate_review inserts a mark exactly for the marks of the reply
\* whose turn index is that of a segment of the session and whose
\* issue_types, original, suggestion and explanation are all filled, in the
\* order of the reply; the other marks are skipped and the marks after them
\* are still inserted
C25_OnlyValidMarksInserted ==
    [][\A d \in DelSlots :
          ReviewReturned(d)
             => LET s == dSess[d]
                    rows == segments[s]
                    turns == {rows[i] : i \in DOMAIN rows}
                    valid == SelectSeq(lastCall'.reply,
                                LAMBDA m : /\ m.turn_index \in turns
                                           /\ m.shape = "full")
                    new == SubSeq(ai_marks'[s], Len(ai_marks[s]) + 1,
                                  Len(ai_marks'[s]))
                IN  /\ SubSeq(ai_marks'[s], 1, Len(ai_marks[s])) = ai_marks[s]
                    /\ Len(new) = Len(valid)
                    /\ \A i \in DOMAIN new :
                          /\ new[i] \in DOMAIN rows
                          /\ rows[new[i]] = valid[i].turn_index]_vars

C25_Witness ==
    \E s \in Sessions :
        /\ lastCall.fn = "generate_review"
        /\ Len(lastCall.reply) = 2
        /\ lastCall.reply[1].shape # "full"
        /\ lastCall.reply[2].shape = "full"
        /\ ai_marks[s] = <<SegMap(segments[s], lastCall.reply[2].turn_index)>>
        /\ ai_marks[s] # <<0>>

\* C26: no mark exists for a session whose persisted status is active, and
\* a mark is written only by a step of the review task launched at End
C26_NoMarkWhileActive ==
    /\ [](\A s \in Sessions : dbStatus[s] = ACTIVE => ai_marks[s] = <<>>)
    /\ [][ai_marks' # ai_marks
            => \E d \in DelSlots : /\ reviewTask[d] = "launched"
                                   /\ reviewTask'[d] = "done"
                                   /\ dMode[d] = "conversation"]_vars

C26_Witness ==
    \E s \in Sessions :
        /\ ai_marks[s] # <<>>
        /\ dbStatus[s] = REVIEWING

\* the step of a call of function fn
Calls(fn) == nCalls' = nCalls + 1 /\ lastCall'.fn = fn

\* C27: generate_correction for a segment id that is not a segment of the
\* session raises, makes no engine call and inserts no correction row
C27_CorrectionNeedsSegment ==
    [][\A s \in Sessions :
          (Calls("generate_correction")
             /\ lastCall'.segment_id \notin DOMAIN segments[s])
             => /\ lastCall'.outcome = "raised"
                /\ ~lastCall'.engine
                /\ corrections' = corrections]_vars

C27_Witness ==
    \E s \in Sessions :
        /\ lastCall.fn = "generate_correction"
        /\ lastCall.segment_id \notin DOMAIN segments[s]
        /\ segments[s] # <<>>
        /\ lastCall.outcome = "raised"
        /\ corrections[s] = <<>>

\* C28: for a session without segments generate_review, generate_chat_summary
\* and generate_session_review return without an engine call and write no
\* mark and no summary row
C28_NoSegmentsNoEngineCall ==
    [][\A s \in Sessions :
          (/\ segments[s] = <<>>
           /\ \/ Calls("generate_chat_summary")
              \/ Calls("generate_session_review")
              \/ \E d \in DelSlots : /\ dSess[d] = s
                                     /\ reviewTask[d] = "launched"
                                     /\ reviewTask'[d] = "done")
             => /\ lastCall'.outcome = "returned"
                /\ ~lastCall'.engine
                /\ UNCHANGED <<ai_marks, session_summaries,
                               chat_summaries>>]_vars

C28_Witness ==
    \E s \in Sessions :
        /\ segments[s] = <<>>
        /\ lastCall.fn = "generate_session_review"
        /\ lastCall.outcome = "returned"
        /\ nCalls = MaxCalls
        /\ reviewTask[1] = "done"

\* C29: after a run of generate_chat_summary or generate_session_review
\* that got a result from the engine, the session's row of the table holds
\* that result (one row per session, the latest result)
C29_SummaryUpsertHoldsLatest ==
    \A s \in Sessions :
        /\ (lastCall.fn = "generate_chat_summary" /\ lastCall.result # 0)
              => chat_summaries[s] = lastCall.result
        /\ (lastCall.fn = "generate_session_review" /\ lastCall.result # 0)
              => session_summaries[s] = lastCall.result

\* C30: after get_or_create_profile the user has a profile row and the call
\* returned it
C30_ProfileCreatedOnFirstCall ==
    lastCall.fn = "get_or_create_profile"
       => /\ lastCall.outcome = "returned"
          /\ profLevel # "absent"

\* a step of a DELETE request in which close() closes the connection
ClosesConnection(d, s) ==
    /\ dSess'[d] = s
    /\ dPc'[d] = "update"
    /\ dPc[d] # "update"
    /\ _conn[s] = "open"
    /\ _conn'[s] = "closed"

\* C31: close() marks the session not connected and cancels the listener
\* in its first step, and closes the connection only in a step before
\* which the listener was no longer running: the connection is never
\* closed by close() while the listener is reading from it
C31_CloseAwaitsListener ==
    [][\A d \in DelSlots, s \in Sessions :
          /\ (dPc[d] = "idle" /\ dPc'[d] \in {"closing", "update"}
                 /\ dSess'[d] = s)
                => /\ ~_connected'[s]
                   /\ _listener_task'[s] # "running"
          /\ ClosesConnection(d, s)
                => /\ _listener_task[s] # "running"
                   /\ ~_connected[s] \/ dPc[d] = "idle"
                   /\ ~_connected'[s]]_vars

\* an End on a connected session: the listener was cancelled and awaited,
\* then the connection was closed
C31_Witness ==
    \E d \in DelSlots :
        /\ dPc[d] = "update"
        /\ connPc[dSess[d]] = "done"
        /\ _listener_task[dSess[d]] = "cancelled"
        /\ _conn[dSess[d]] = "closed"
        /\ ~_connected[dSess[d]]

\* C32: a correction row is written through the corrections endpoint only
\* while the session's persisted status is reviewing or completed and for a
\* segment of that session; a request on a session in another status is
\* rejected
C32_CorrectionOnlyInReview ==
    /\ [][\A s \in Sessions :
            corrections'[s] # corrections[s]
               => /\ dbStatus[s] \in {REVIEWING, COMPLETED}
                  /\ corrections'[s][Len(corrections'[s])]
                        \in DOMAIN segments[s]]_vars
    /\ [][(cPc = "idle" /\ cPc' # "idle"
             /\ dbStatus[cSess'] \in {ACTIVE, COMPLETING, ENDED})
               => cPc' = "rejected"]_vars

\* C37: at most one finalization task is launched per session, and no
\* step rewrites a persisted status completed to completing
C37_OneFinalizationPerSession ==
    /\ [](\A s \in Sessions :
            Cardinality({f \in EndSlots :
                            fSess[f] = s /\ finTask[f] # "none"}) <= 1)
    /\ [][\A s \in Sessions :
            dbStatus[s] = COMPLETED => dbStatus'[s] # COMPLETING]_vars

\* C38: no get_or_create_profile call of an evaluate request fails, and
\* when both calls have returned the user has a profile row
C38_ConcurrentProfileCreation ==
    /\ \A c \in ProfileCallers : gpPc[c] # "raised"
    /\ (\A c \in ProfileCallers : gpPc[c] = "returned")
          => profLevel # "absent"

\* C33: every session in the registry has a session row whose status is
\* active
C33_RegistryMatchesStatus ==
    \A s \in _sessions : dbStatus[s] = ACTIVE

\* the DELETE requests that got the session from the registry
Performed(s) ==
    {d \in DelSlots : dSess[d] = s /\ dPc[d] \notin {"idle", "notfound"}}

C35_EndDuringConnect ==
    \A d \in DelSlots, s \in Sessions :
        (/\ dSess[d] = s
         /\ dPc[d] \in {"update", "launch", "returned"}
         /\ connPc[s] \in {"done", "failed"})
            => /\ ~_connected[s]
               /\ _listener_task[s] # "running"
               /\ _conn[s] # "open"

\* C36: no mark is inserted for a session whose persisted status is
\* completed
C36_NoMarkAfterCompleted ==
    [][\A s \in Sessions :
          ai_marks'[s] # ai_marks[s] => dbStatus[s] # COMPLETED]_vars

\* the step in which user turn t takes an event from the Event Channel
ConsumesEvent(t) ==
    /\ tPc[t] = "loop"
    /\ tKind[t] # "greeting"
    /\ _event_queue[tSess[t]] # <<>>
    /\ _event_queue'[tSess[t]] = Tail(_event_queue[tSess[t]])

\* C39: no event of the greeting response requested by connect() is
\* consumed by the loop of a user turn (a greeting event is a text delta or
\* a terminal event, so it would add to the reply text or end the loop)
C39_GreetingNotInTurn ==
    [][\A t \in TurnSlots :
          ConsumesEvent(t) => Head(_event_queue[tSess[t]]).turn # 0]_vars

\* C40: every turn that passed the connected check and the drain eventually
\* ends with the done item
C40_TurnTerminates ==
    \A n \in 1..MaxTurns :
        (\E t \in TurnSlots : tPc[t] = "submit" /\ tNum[t] = n)
            ~> (n \in doneTurns)

====
